---- MODULE Spec2Model ----
(***************************************************************************)
(* State-machine model of github-oauth-autologin.                          *)
(*                                                                         *)
(*   Spec          GitHubAuthenticator.login and its sub-flows             *)
(*                 (src/core/github_auth.py)                               *)
(*   SpecCallback  OAuthFlowController.wait_callback                       *)
(*                 (src/core/oauth_handler.py)                             *)
(*   SpecOAuth     OAuthFlowController.click_oauth_button and             *)
(*                 handle_authorization (src/core/oauth_handler.py)        *)
(*   SpecCookies   the end of SiteAdapter.run: _extract_and_save_cookies,  *)
(*                 CookieManager.save_cookies and the retry wrapper        *)
(*                 (src/sites/base.py, src/core/cookie_manager.py,         *)
(*                 src/utils/retry.py)                                     *)
(*   SpecSave      CookieManager.save_cookies called on its own            *)
(*   SpecState     StateManager (src/core/state_manager.py)                *)
(*   SpecMask      mask_sensitive (src/utils/security.py)                  *)
(*   SpecRetry     the retry decorator (src/utils/retry.py)                *)
(*   SpecMain      main (src/main.py)                                      *)
(*   SpecTelegram  TelegramNotifier.wait_user_input as _handle_2fa_totp    *)
(*                 calls it (src/notifiers/telegram.py)                    *)
(*   SpecExport    main of the login-only entry point (src/login_only.py)  *)
(*   SpecRun       the choice SiteAdapter.run makes after the OAuth button *)
(*                 (src/sites/base.py)                                     *)
(*                                                                         *)
(* Strings are modelled as sequences of tokens, so that Python's           *)
(* substring test `a in b` is the contiguous-subsequence test Contains.    *)
(* The tokens are cut so that every substring relation between the         *)
(* constants of src/core/constants.py survives (for instance               *)
(* "github.com/session" is a substring of                                  *)
(* "github.com/sessions/two-factor").                                      *)
(*                                                                         *)
(* In Spec the Notifier is the abstract NotifierInterface of               *)
(* src/core/types.py: its calls return normally; SpecTelegram and          *)
(* SpecExport model the Telegram one.  The browser is the environment: the *)
(* page URL may change whenever the code sleeps, waits, clicks or reloads, *)
(* and every locator operation may succeed, time out or raise.             *)
(***************************************************************************)
EXTENDS Naturals, Integers, Sequences, FiniteSets, TLC

\* ------------------------------------------------------------------ bounds
\* Largest device-verification budget (DeviceVerificationConfig.wait) tried.
MaxDeviceWait == 11
\* Largest push-approval budget (TwoFactorConfig.mobile_wait) tried.
MaxMobileWait == 3

\* Budgets tried: one tick, the last budget with no in-loop re-check, the
\* first with one, and the largest.
\* Largest wait_callback timeout tried.
MaxCallbackWait == 3
\* Longest success_url_patterns list tried.
MaxPatterns == 2
\* Longest cookie_targets list tried.
MaxTargets == 2
\* Largest cookie jar tried.
MaxJar == 2
\* Screenshot files counted.
MaxScreenshots == 1

DeviceWaits == {1, 5, 6, MaxDeviceWait}
MobileWaits == {1, MaxMobileWait}

\* ------------------------------------------------------------- strings
\* Python `pat in s` on token sequences.
Contains(pat, s) ==
    \E k \in 0..(Len(s) - Len(pat)) : SubSeq(s, k + 1, k + Len(pat)) = pat

\* GitHubUrls (src/core/constants.py)
LOGIN == <<"https://", "github.com", "/", "login">>
SESSION == <<"github.com", "/", "session">>
OAUTH_AUTHORIZE == <<"github.com", "/", "login", "/", "oauth", "/", "authorize">>
TWO_FACTOR == <<"github.com", "/", "session", "s", "/", "two-factor">>
TWO_FACTOR_MOBILE == <<"two-factor", "/", "mobile">>
DEVICE_VERIFICATION == <<"verified-device">>
DEVICE_VERIFICATION_ALT == <<"device-verification">>

\* Selectors.TOTP_INPUT (src/core/constants.py)
TOTP_INPUT == <<"input[autocomplete=one-time-code]", "input[name=app_otp]", "input[name=otp]">>

\* Pages the browser can be on.
UrlLoginPage == LOGIN
UrlSessionPage == <<"https://">> \o SESSION
UrlTwoFactorApp == <<"https://">> \o TWO_FACTOR \o <<"/", "app">>
UrlTwoFactorMobile == <<"https://">> \o TWO_FACTOR \o <<"/", "mobile">>
UrlVerifiedDevice == <<"https://", "github.com", "/", "session", "s", "/", "verified-device">>
UrlDeviceVerification == <<"https://", "github.com", "/", "session", "s", "/", "device-verification">>
UrlLoginReturnTo == LOGIN \o <<"?return_to=", "https://">> \o TWO_FACTOR
UrlAuthorize == <<"https://">> \o OAUTH_AUTHORIZE
UrlSiteHome == <<"https://", "site.example", "/", "dashboard">>

Urls ==
    { UrlLoginPage, UrlSessionPage, UrlTwoFactorApp, UrlTwoFactorMobile,
      UrlVerifiedDevice, UrlDeviceVerification, UrlLoginReturnTo,
      UrlAuthorize, UrlSiteHome }

\* Replies wait_user_input can hand back: a captured code, or None.
NoCode == "None"
Codes == {"123456"}

\* TwoFactorConfig.strategy (src/core/types.py)
Strategies == {"auto", "mobile", "totp"}

\* The configurations tried: each field takes all its values while the
\* other two keep a base value.
Configs ==
    { [device_wait |-> d, mobile_wait |-> MaxMobileWait, strategy |-> "auto"] :
        d \in DeviceWaits }
    \cup { [device_wait |-> MaxDeviceWait, mobile_wait |-> m, strategy |-> "auto"] :
        m \in MobileWaits }
    \cup { [device_wait |-> MaxDeviceWait, mobile_wait |-> MaxMobileWait, strategy |-> st] :
        st \in Strategies }

VARIABLES
    pc,            \* control position
    url,           \* page.url
    device_wait,   \* DeviceVerificationConfig.wait
    mobile_wait,   \* TwoFactorConfig.mobile_wait
    strategy,      \* TwoFactorConfig.strategy
    ret,           \* return values of login and of its sub-calls
    phases,        \* phases of login started so far, in order
    subflows,      \* two-factor sub-flows entered so far, in order
    notified,      \* Notifier.notify calls so far: <<message, level>>
    photos,        \* Notifier.send_photo calls so far (the page shown)
    screenshots,   \* len(GitHubAuthenticator.screenshots), up to MaxScreenshots
    i,             \* loop index of the running poll loop
    dvTicks,       \* time.sleep(1) calls made by the running (or just
                   \* returned) handle_device_verification
    awayFrom,      \* first tick of that call from which every URL seen
                   \* was off the device-verification markers (0: none)
    mobileTicks,   \* time.sleep(1) calls made by _handle_2fa_mobile
    code,          \* the code wait_user_input returned
    totpIdx,       \* index into Selectors.TOTP_INPUT of the next candidate
    probes,        \* what is_visible gave for each candidate tried so far
    fills,         \* el.fill calls that succeeded: <<selector, text>>
    submits,       \* submit actions that succeeded: "click" or "enter"
    flash,         \* what the probe of Selectors.ERROR_FLASH found
    soft,          \* the swallowed failures of submit and settle so far
    \* wait_callback
    success_patterns,  \* SiteConfig.success_url_patterns
    cb_timeout,        \* the timeout argument, in seconds
    polled,            \* the URLs read at the polls so far
    authCalls,         \* handle_authorization calls made while polling
    authClicks,        \* authorize-button clicks made by those calls
    cbRet,             \* what wait_callback returned
    \* cookie saving
    jar,               \* context.cookies()
    cookie_domain,     \* SiteConfig.cookie_domain
    cookie_names,      \* SiteConfig.cookie_names
    cookie_targets,    \* the type of each SiteConfig.cookie_targets entry
    envReady,          \* REPO_TOKEN and GITHUB_REPOSITORY are both set
    nameIdx,           \* index of the cookie name being handled
    targetIdx,         \* index of the target being written
    value,             \* the value extracted for the current name
    attempt,           \* attempt number inside the retry wrapper
    sleeps,            \* delays the retry wrapper slept
    writes,            \* <<name, target type, outcome>> of every finished write
    jarRead,           \* the last context.cookies() call returned (did not raise)
    shown,             \* cookie text put into log lines and Notifier messages
    runRet,            \* what SiteAdapter.run returned
    \* click_oauth_button and handle_authorization
    selectors,         \* the selector list the running call walks through
    selIdx,            \* index of the next selector
    probed,            \* <<selector, what is_visible gave>> so far
    clicked,           \* <<selector, how element.click() ended>> so far
    opUrl,             \* the URL handle_authorization read on entry
    opRet,             \* what the call returned
    \* StateManager
    file,              \* the state file
    diskOk,            \* the state file can be written
    status,            \* per instance: "new", "ready", or how a call raised
    mem,               \* per instance: self.state
    loaded,            \* per instance: self.state as _load returned it
    loadedAt,          \* per instance: calls made (by anyone) before it loaded
    calls,             \* record_login_attempt calls: <<instance, site, success>>
    \* mask_sensitive
    maskValue,         \* the value argument, as characters
    maskShow,          \* the show_chars argument
    maskOut,           \* whether the call returned, and the text it returned
    \* retry wrapper
    max_attempts,      \* decorator arguments
    delay,
    backoff,
    current_delay,     \* the wrapper's local
    invoked,           \* outcome of each invocation of the wrapped function
    naps,              \* the arguments of the time.sleep calls, in order
    retryOut,          \* "running", "returned", or what the wrapper raised
    \* main
    argv,              \* whether a site name was given
    site_cfg,          \* what load_config finds for the site
    creds,             \* which of GH_USERNAME, GH_PASSWORD are set
    mainPc,            \* position in main
    runResult,         \* what adapter.run did
    pending,           \* the code of a sys.exit in flight, "none" otherwise
    exitCode,          \* the process exit code ("0", "1"), "none" while running
    \* TelegramNotifier
    tgEnabled,         \* TelegramNotifier.enabled
    tgPattern,         \* the pattern argument of wait_user_input
    inbox,             \* the updates the bot API holds, update_id = position
    tgOffset,          \* the local offset
    tgPc,              \* position in _handle_2fa_totp / wait_user_input
    tgRet,             \* what wait_user_input returned
    tgPolls,           \* getUpdates calls of the wait loop so far
    netCalls,          \* HTTP requests made so far
    \* login_only
    hasNotifier,       \* setup_notifier returned a notifier
    secretEnv,         \* REPO_TOKEN and GITHUB_REPOSITORY are set
    loPc,              \* position in main of login_only.py
    exported,          \* output_to_github_actions calls: <<session, status>>
    loExit             \* the process exit code ("0", "1"), "none" while running

loginVars ==
    << pc, url, device_wait, mobile_wait, strategy, ret, phases, subflows,
       notified, photos, screenshots, i, dvTicks, awayFrom, mobileTicks,
       code, totpIdx, probes, fills, submits, flash, soft >>

callbackVars ==
    << success_patterns, cb_timeout, polled, authCalls, authClicks, cbRet >>

cookieVars ==
    << jar, cookie_domain, cookie_names, cookie_targets, envReady, nameIdx,
       targetIdx, value, attempt, sleeps, writes, jarRead, shown, runRet >>

oauthVars == << selectors, selIdx, probed, clicked, opUrl, opRet >>

stateVars == << file, diskOk, status, mem, loaded, loadedAt, calls >>

maskVars == << maskValue, maskShow, maskOut >>
retryVars == << max_attempts, delay, backoff, current_delay, invoked, naps, retryOut >>
mainVars == << argv, site_cfg, creds, mainPc, runResult, pending, exitCode >>

\* The variables of the components that stand on their own.
tgVars == << tgEnabled, tgPattern, inbox, tgOffset, tgPc, tgRet, tgPolls, netCalls >>
exportVars == << hasNotifier, secretEnv, loPc, exported, loExit >>
lateVars == << tgVars, exportVars >>
otherVars == << stateVars, maskVars, retryVars, mainVars, lateVars >>

vars == << loginVars, callbackVars, cookieVars, oauthVars, otherVars >>

\* The variables only login and its sub-flows use.
loginOnly ==
    << device_wait, mobile_wait, strategy, ret, phases, subflows, photos,
       screenshots, dvTicks, awayFrom, mobileTicks, code, totpIdx, probes, fills,
       submits, flash, soft >>

\* What the actions of one component leave alone.
OutsideLogin == << callbackVars, cookieVars, oauthVars, otherVars >>
OutsideCallback == << loginOnly, cookieVars, oauthVars, otherVars, notified >>
OutsideCookies == << loginOnly, callbackVars, oauthVars, otherVars, url, i >>
OutsideOAuth == << loginOnly, callbackVars, cookieVars, otherVars, notified, i >>
\* The browser-side variables, which the stand-alone components never use.
BrowserVars == << loginVars, callbackVars, cookieVars, oauthVars >>
OutsideState == << BrowserVars, maskVars, retryVars, mainVars, lateVars >>
OutsideMask == << BrowserVars, stateVars, retryVars, mainVars, lateVars >>
OutsideRetry == << BrowserVars, stateVars, maskVars, mainVars, lateVars >>
OutsideMain == << BrowserVars, stateVars, maskVars, retryVars, lateVars >>
OutsideTelegram == << BrowserVars, stateVars, maskVars, retryVars, mainVars, exportVars >>
OutsideExport == << BrowserVars, stateVars, maskVars, retryVars, mainVars, tgVars >>

\* ------------------------------------------------------------- helpers
Notify(msg, level) == Append(notified, <<msg, level>>)

\* GitHubAuthenticator._screenshot: one more file in self.screenshots
\* unless page.screenshot raises (files are counted up to MaxScreenshots;
\* the code only asks whether the list is empty).
Screenshot(shots, ok) == IF ok /\ shots < MaxScreenshots THEN shots + 1 ELSE shots

OnDeviceVerification(u) ==
    Contains(DEVICE_VERIFICATION, u) \/ Contains(DEVICE_VERIFICATION_ALT, u)

\* ------------------------------------------------ GitHubAuthenticator.login
AfterFillCredentials_Ignored(ok) == "submit"

\* Lines 63-64: what login does with the result of _fill_credentials.
AfterFillCredentials(ok) == IF ok THEN "submit" ELSE "done"

\* login, lines 59-64, with _fill_credentials: the first screenshot, then
\* both inputs are filled; a browser error makes login return False.
LoginFillCredentials ==
    /\ pc = "login"
    /\ \E shotOk \in BOOLEAN, fillOk \in BOOLEAN :
        /\ screenshots' = Screenshot(screenshots, shotOk)
        /\ phases' = Append(phases, "credential_fill")
        /\ pc' = AfterFillCredentials(fillOk)
        /\ ret' = [ret EXCEPT
                     !.cred = IF fillOk THEN "true" ELSE "false",
                     !.login = IF AfterFillCredentials(fillOk) = "done"
                               THEN "false" ELSE "none"]
    /\ UNCHANGED OutsideLogin
    /\ UNCHANGED << url, device_wait, mobile_wait, strategy, subflows, notified,
                    photos, i, dvTicks, awayFrom, mobileTicks, code, totpIdx, probes,
                    fills, submits, flash, soft >>

AfterSubmit_ClickNeeded(clickOk) == IF clickOk THEN "settle" ELSE "done"

\* _submit_login_form, lines 118-121: a click that raises is logged and
\* swallowed.
AfterSubmit(clickOk) == "settle"

\* login, lines 66-69, with _submit_login_form.
LoginSubmit ==
    /\ pc = "submit"
    /\ \E shotOk \in BOOLEAN, clickOk \in BOOLEAN :
        /\ screenshots' = Screenshot(screenshots, shotOk)
        /\ soft' = IF clickOk THEN soft ELSE soft \cup {"submit_click"}
        /\ pc' = AfterSubmit(clickOk)
    /\ phases' = Append(phases, "submit")
    /\ UNCHANGED OutsideLogin
    /\ UNCHANGED << url, device_wait, mobile_wait, strategy, ret, subflows,
                    notified, photos, i, dvTicks, awayFrom, mobileTicks, code,
                    totpIdx, probes, fills, submits, flash >>

\* _wait_for_page_load catches PlaywrightTimeout only: any other
\* PlaywrightError leaves the caller as an exception.
LoadOutcomes == {"idle", "timeout", "error"}

AfterSettle_TryAgain(u) ==
    IF OnDeviceVerification(u) THEN "device_verification"
    ELSE IF u = UrlLoginPage THEN "login" ELSE "two_factor_check"

\* Where login goes after the settle, from the URL it read (lines 75-86).
AfterSettle(u) ==
    IF OnDeviceVerification(u) THEN "device_verification" ELSE "two_factor_check"

\* login, lines 71-79: sleep, wait for network idle, screenshot, read URL.
LoginSettle ==
    /\ pc = "settle"
    /\ phases' = Append(phases, "settle")
    /\ \E u \in Urls, load \in LoadOutcomes, shotOk \in BOOLEAN :
        /\ url' = u
        /\ soft' = IF load = "timeout" THEN soft \cup {"settle_timeout"} ELSE soft
        /\ IF load = "error"
           THEN /\ pc' = "done"
                /\ ret' = [ret EXCEPT !.login = "raised"]
                /\ UNCHANGED screenshots
           ELSE /\ screenshots' = Screenshot(screenshots, shotOk)
                /\ pc' = AfterSettle(u)
                /\ UNCHANGED ret
    /\ UNCHANGED OutsideLogin
    /\ UNCHANGED << device_wait, mobile_wait, strategy, subflows, notified,
                    photos, i, dvTicks, awayFrom, mobileTicks, code, totpIdx, probes,
                    fills, submits, flash >>

\* --------------------------------------- handle_device_verification
\* Lines 160-169: screenshot, one notification, the latest screenshot (if
\* any was ever taken) as a photo.
DeviceVerificationStart ==
    /\ pc = "device_verification"
    /\ phases' = Append(phases, "device_verification")
    /\ \E shotOk \in BOOLEAN :
        /\ screenshots' = Screenshot(screenshots, shotOk)
        /\ photos' = IF screenshots' > 0
                     THEN Append(photos, "device_verification")
                     ELSE photos
    /\ notified' = Notify("DEVICE_VERIFICATION_NEEDED", "WARN")
    /\ i' = 0
    /\ dvTicks' = 0
    /\ awayFrom' = 0
    /\ pc' = "dv_loop"
    /\ UNCHANGED OutsideLogin
    /\ UNCHANGED << url, device_wait, mobile_wait, strategy, ret, subflows,
                    mobileTicks, code, totpIdx, probes, fills, submits, flash, soft >>

DeviceRecheckDue_EveryTick(k) == k > 0

\* Line 173: the iterations of the loop that look at the URL.
DeviceRecheckDue(k) == k % 5 = 0 /\ k > 0

AfterReload_Propagates(reloadOk) == IF reloadOk THEN "dv_loop" ELSE "done"

\* Lines 181-185: page.reload and the wait after it sit in a try whose
\* except clause passes on every browser error; the loop goes on.
AfterReload(reloadOk) == "dv_loop"

\* Lines 171-185, one iteration: sleep one second (the URL becomes u1); on
\* a re-check iteration return True when the URL is off both markers, else
\* reload, which leaves the page on u2; a reload that raises is swallowed
\* and changes nothing else.
DeviceVerificationTick ==
    /\ pc = "dv_loop"
    /\ i < device_wait
    /\ dvTicks' = dvTicks + 1
    /\ \E u1 \in Urls, u2 \in Urls, reloadOk \in BOOLEAN :
        IF DeviceRecheckDue(i)
        THEN IF ~OnDeviceVerification(u1)
             THEN /\ u2 = u1
                  /\ reloadOk
                  /\ url' = u1
                  /\ awayFrom' = IF awayFrom = 0 THEN dvTicks' ELSE awayFrom
                  /\ notified' = Notify("DEVICE_VERIFICATION_PASSED", "SUCCESS")
                  /\ ret' = [ret EXCEPT !.dv = "true"]
                  /\ pc' = "dv_settle"
                  /\ UNCHANGED << i, soft >>
             ELSE /\ url' = u2
                  /\ awayFrom' = IF OnDeviceVerification(u2) THEN 0 ELSE dvTicks' + 1
                  /\ i' = i + 1
                  /\ soft' = IF reloadOk THEN soft ELSE soft \cup {"reload_failed"}
                  /\ pc' = AfterReload(reloadOk)
                  /\ UNCHANGED << notified, ret >>
        ELSE /\ u2 = u1
             /\ reloadOk
             /\ url' = u1
             /\ awayFrom' = IF OnDeviceVerification(u1) THEN 0
                            ELSE IF awayFrom = 0 THEN dvTicks' ELSE awayFrom
             /\ i' = i + 1
             /\ UNCHANGED << notified, ret, pc, soft >>
    /\ UNCHANGED OutsideLogin
    /\ UNCHANGED << device_wait, mobile_wait, strategy, phases, subflows,
                    photos, screenshots, mobileTicks, code, totpIdx, probes, fills,
                    submits, flash >>

DeviceFinalCheck_None(u) == "false"

\* Lines 187-194: what the call returns when the loop has run out.
DeviceFinalCheck(u) == IF ~OnDeviceVerification(u) THEN "true" ELSE "false"

DeviceVerificationFinal ==
    /\ pc = "dv_loop"
    /\ i >= device_wait
    /\ IF DeviceFinalCheck(url) = "true"
       THEN /\ ret' = [ret EXCEPT !.dv = "true"]
            /\ pc' = "dv_settle"
            /\ UNCHANGED notified
       ELSE /\ notified' = Notify("DEVICE_VERIFICATION_TIMEOUT", "ERROR")
            /\ ret' = [ret EXCEPT !.dv = "false", !.login = "false"]
            /\ pc' = "done"
    /\ UNCHANGED OutsideLogin
    /\ UNCHANGED << url, device_wait, mobile_wait, strategy, phases, subflows,
                    photos, screenshots, i, dvTicks, awayFrom, mobileTicks,
                    code, totpIdx, probes, fills, submits, flash, soft >>

\* login, lines 82-83: after a passed device verification, sleep and wait
\* for the page again.  The locals of the finished call are gone.
LoginAfterDeviceVerification ==
    /\ pc = "dv_settle"
    /\ \E u \in Urls, load \in LoadOutcomes :
        /\ url' = u
        /\ IF load = "error"
           THEN pc' = "done" /\ ret' = [ret EXCEPT !.login = "raised"]
           ELSE pc' = "two_factor_check" /\ UNCHANGED ret
    /\ i' = 0
    /\ dvTicks' = 0
    /\ awayFrom' = 0
    /\ UNCHANGED OutsideLogin
    /\ UNCHANGED << device_wait, mobile_wait, strategy, phases, subflows,
                    notified, photos, screenshots, mobileTicks, code, totpIdx, probes,
                    fills, submits, flash, soft >>

\* ------------------------------------------------------------ handle_2fa
Handle2faRoute_ByStrategy(u) ==
    IF strategy = "mobile" THEN "mobile"
    ELSE IF strategy = "totp" THEN "totp"
    ELSE IF Contains(TWO_FACTOR_MOBILE, u) THEN "mobile" ELSE "totp"

\* Lines 209-212: the sub-flow handle_2fa enters on URL u.
Handle2faRoute(u) == IF Contains(TWO_FACTOR_MOBILE, u) THEN "mobile" ELSE "totp"

\* login, line 86, when the URL carries no two-factor marker.
LoginSkipTwoFactor ==
    /\ pc = "two_factor_check"
    /\ ~Contains(TWO_FACTOR, url)
    /\ pc' = "error_check"
    /\ UNCHANGED OutsideLogin
    /\ UNCHANGED << url, device_wait, mobile_wait, strategy, ret, phases,
                    subflows, notified, photos, screenshots, i, dvTicks,
                    awayFrom, mobileTicks, code, totpIdx, probes, fills, submits,
                    flash, soft >>

\* login line 86, handle_2fa, and _handle_2fa_mobile up to its loop
\* (lines 224-233): two screenshots, the notification, the photo when the
\* second screenshot was taken.
Handle2faMobileStart ==
    /\ pc = "two_factor_check"
    /\ Contains(TWO_FACTOR, url)
    /\ Handle2faRoute(url) = "mobile"
    /\ phases' = Append(phases, "two_factor")
    /\ subflows' = Append(subflows, "mobile")
    /\ \E shot1 \in BOOLEAN, shot2 \in BOOLEAN :
        /\ screenshots' = Screenshot(Screenshot(screenshots, shot1), shot2)
        /\ photos' = IF shot2 THEN Append(photos, "2fa_mobile") ELSE photos
    /\ notified' = Notify("TWO_FACTOR_MOBILE_NEEDED", "WARN")
    /\ i' = 0
    /\ mobileTicks' = 0
    /\ pc' = "mobile_loop"
    /\ UNCHANGED OutsideLogin
    /\ UNCHANGED << url, device_wait, mobile_wait, strategy, ret, dvTicks,
                    awayFrom, code, totpIdx, probes, fills, submits, flash, soft >>

MobilePollOutcome_NoApproval(u) ==
    IF Contains(LOGIN, u) THEN "redirected" ELSE "pending"

\* Lines 238-246: the outcome of one push-approval poll on URL u.
MobilePollOutcome(u) ==
    IF ~Contains(TWO_FACTOR, u) THEN "approved"
    ELSE IF Contains(LOGIN, u) THEN "redirected"
    ELSE "pending"

\* Lines 235-249, one iteration: sleep one second, read the URL, decide.
Handle2faMobileTick ==
    /\ pc = "mobile_loop"
    /\ i < mobile_wait
    /\ mobileTicks' = mobileTicks + 1
    /\ \E u \in Urls :
        /\ url' = u
        /\ CASE MobilePollOutcome(u) = "approved" ->
                  /\ notified' = Notify("TWO_FACTOR_PASSED", "SUCCESS")
                  /\ ret' = [ret EXCEPT !.tfa = "true"]
                  /\ pc' = "error_check"
                  /\ UNCHANGED i
             [] MobilePollOutcome(u) = "redirected" ->
                  /\ ret' = [ret EXCEPT !.tfa = "false", !.login = "false"]
                  /\ pc' = "done"
                  /\ UNCHANGED << notified, i >>
             [] OTHER ->
                  /\ i' = i + 1
                  /\ UNCHANGED << notified, ret, pc >>
    /\ UNCHANGED OutsideLogin
    /\ UNCHANGED << device_wait, mobile_wait, strategy, phases, subflows,
                    photos, screenshots, dvTicks, awayFrom, code, totpIdx, probes,
                    fills, submits, flash, soft >>

\* Lines 251-253: the loop ran out.
Handle2faMobileTimeout ==
    /\ pc = "mobile_loop"
    /\ i >= mobile_wait
    /\ notified' = Notify("TWO_FACTOR_TIMEOUT", "ERROR")
    /\ ret' = [ret EXCEPT !.tfa = "false", !.login = "false"]
    /\ pc' = "done"
    /\ UNCHANGED OutsideLogin
    /\ UNCHANGED << url, device_wait, mobile_wait, strategy, phases, subflows,
                    photos, screenshots, i, dvTicks, awayFrom, mobileTicks,
                    code, totpIdx, probes, fills, submits, flash, soft >>

\* login line 86, handle_2fa, and _handle_2fa_totp up to the blocking wait
\* (lines 265-274).
Handle2faTotpStart ==
    /\ pc = "two_factor_check"
    /\ Contains(TWO_FACTOR, url)
    /\ Handle2faRoute(url) = "totp"
    /\ phases' = Append(phases, "two_factor")
    /\ subflows' = Append(subflows, "totp")
    /\ \E shot1 \in BOOLEAN, shot2 \in BOOLEAN :
        /\ screenshots' = Screenshot(Screenshot(screenshots, shot1), shot2)
        /\ photos' = IF shot2 THEN Append(photos, "2fa_totp") ELSE photos
    /\ notified' = Notify("TWO_FACTOR_TOTP_NEEDED", "WARN")
    /\ pc' = "totp_wait"
    /\ UNCHANGED OutsideLogin
    /\ UNCHANGED << url, device_wait, mobile_wait, strategy, ret, i, dvTicks,
                    awayFrom, mobileTicks, code, totpIdx, probes, fills, submits,
                    flash, soft >>

AfterUserInput_AlwaysFill(c) == "totp_fill"

\* Line 282, `if not code`: where _handle_2fa_totp goes with the reply.
AfterUserInput(c) == IF c = NoCode THEN "done" ELSE "totp_fill"

\* Lines 276-290: block on wait_user_input; no code ends the call.
Handle2faTotpWait ==
    /\ pc = "totp_wait"
    /\ \E c \in Codes \cup {NoCode} :
        /\ code' = c
        /\ pc' = AfterUserInput(c)
        /\ IF AfterUserInput(c) = "done"
           THEN /\ notified' = Notify("CODE_WAIT_TIMEOUT", "ERROR")
                /\ ret' = [ret EXCEPT !.tfa = "false", !.login = "false"]
                /\ UNCHANGED totpIdx
           ELSE /\ notified' = Notify("CODE_RECEIVED", "SUCCESS")
                /\ totpIdx' = 1
                /\ UNCHANGED ret
    /\ UNCHANGED OutsideLogin
    /\ UNCHANGED << url, device_wait, mobile_wait, strategy, phases, subflows,
                    photos, screenshots, i, dvTicks, awayFrom, mobileTicks,
                    probes, fills, submits, flash, soft >>

\* What one pass of the loop body of _fill_totp_code can meet, in the order
\* of the code: the probe (is_visible), el.fill, the submit (click, else
\* Enter), the settle wait.  Every browser error inside the try (probe,
\* fill, Enter after a failed click, a non-timeout error of the settle
\* wait) is caught at line 328 and continues with the next candidate.
TotpTryOutcomes ==
    { "hidden", "probe_raises", "fill_raises", "enter_raises",
      "click_load_error", "enter_load_error", "click_checked", "enter_checked" }

\* Line 305: what el.is_visible gave (a raise is caught at line 328).
TotpProbe(o) ==
    IF o = "hidden" THEN "hidden" ELSE IF o = "probe_raises" THEN "raises" ELSE "visible"
TotpFilled(o) == o \notin {"hidden", "probe_raises", "fill_raises"}
TotpSubmitted(o) == TotpFilled(o) /\ o # "enter_raises"
TotpSubmitKey(o) == IF o \in {"click_load_error", "click_checked"} THEN "click" ELSE "enter"
TotpChecked(o) == o \in {"click_checked", "enter_checked"}

TotpVerdict_AlwaysAccepted(u) == "true"

\* Lines 320-327: the result once the URL is re-read after the settle.
TotpVerdict(u) == IF ~Contains(TWO_FACTOR, u) THEN "true" ELSE "false"

\* _fill_totp_code, lines 302-329, one candidate selector.  The page may
\* move (to u) once the code was submitted.
FillTotpCodeTry ==
    /\ pc = "totp_fill"
    /\ totpIdx <= Len(TOTP_INPUT)
    /\ \E o \in TotpTryOutcomes, u \in Urls :
        /\ probes' = Append(probes, TotpProbe(o))
        /\ fills' = IF TotpFilled(o)
                    THEN Append(fills, <<TOTP_INPUT[totpIdx], code>>) ELSE fills
        /\ submits' = IF TotpSubmitted(o)
                      THEN Append(submits, TotpSubmitKey(o)) ELSE submits
        /\ url' = IF TotpSubmitted(o) THEN u ELSE url
        /\ TotpSubmitted(o) \/ u = url
        /\ IF ~TotpChecked(o)
           THEN /\ totpIdx' = totpIdx + 1
                /\ UNCHANGED << notified, ret, pc >>
           ELSE /\ UNCHANGED totpIdx
                /\ IF TotpVerdict(u) = "true"
                   THEN /\ notified' = Notify("CODE_ACCEPTED", "SUCCESS")
                        /\ ret' = [ret EXCEPT !.tfa = "true"]
                        /\ pc' = "error_check"
                   ELSE /\ notified' = Notify("CODE_REJECTED", "ERROR")
                        /\ ret' = [ret EXCEPT !.tfa = "false", !.login = "false"]
                        /\ pc' = "done"
    /\ UNCHANGED OutsideLogin
    /\ UNCHANGED << device_wait, mobile_wait, strategy, phases, subflows,
                    photos, screenshots, i, dvTicks, awayFrom, mobileTicks,
                    code, flash, soft >>

\* Lines 331-332: no candidate was filled and submitted.
FillTotpCodeNotFound ==
    /\ pc = "totp_fill"
    /\ totpIdx > Len(TOTP_INPUT)
    /\ ret' = [ret EXCEPT !.tfa = "false", !.login = "false"]
    /\ pc' = "done"
    /\ UNCHANGED OutsideLogin
    /\ UNCHANGED << url, device_wait, mobile_wait, strategy, phases, subflows,
                    notified, photos, screenshots, i, dvTicks, awayFrom,
                    mobileTicks, code, totpIdx, probes, fills, submits, flash, soft >>

\* _check_login_error, lines 136-144: True only when the element is
\* visible and its text can be read; every browser error means "no error".
CheckLoginError(probe) == probe = "visible"

FlashOutcomes == {"visible", "visible_text_raises", "hidden", "raises"}

\* login, lines 90-95.
LoginCheckError ==
    /\ pc = "error_check"
    /\ phases' = Append(phases, "error_check")
    /\ \E probe \in FlashOutcomes :
        /\ flash' = probe
        /\ ret' = [ret EXCEPT !.login = IF CheckLoginError(probe) THEN "false" ELSE "true"]
    /\ pc' = "done"
    /\ UNCHANGED OutsideLogin
    /\ UNCHANGED << url, device_wait, mobile_wait, strategy, subflows, notified,
                    photos, screenshots, i, dvTicks, awayFrom, mobileTicks,
                    code, totpIdx, probes, fills, submits, soft >>

\* ------------------------------------------------------- specification
\* SiteAdapter.run (src/sites/base.py, line 69) calls login on these URLs.
LoginEntryUrls ==
    { u \in Urls : Contains(<<"github.com", "/", "login">>, u) \/ Contains(SESSION, u) }

\* A GitHubAuthenticator on which login has not done anything yet.
LoginFresh ==
    /\ ret = [cred |-> "none", dv |-> "none", tfa |-> "none", login |-> "none"]
    /\ phases = << >>
    /\ subflows = << >>
    /\ photos = << >>
    /\ screenshots = 0
    /\ dvTicks = 0
    /\ awayFrom = 0
    /\ mobileTicks = 0
    /\ code = NoCode
    /\ totpIdx = 0
    /\ probes = << >>
    /\ fills = << >>
    /\ submits = << >>
    /\ flash = "none"
    /\ soft = {}

\* wait_callback not called.
CallbackIdle ==
    /\ success_patterns = << >>
    /\ cb_timeout = 0
    /\ polled = << >>
    /\ authCalls = 0
    /\ authClicks = 0
    /\ cbRet = "none"

\* Cookie saving not started.
CookiesIdle ==
    /\ jar = << >>
    /\ cookie_domain = << >>
    /\ cookie_names = << >>
    /\ cookie_targets = << >>
    /\ envReady = FALSE
    /\ nameIdx = 0
    /\ targetIdx = 0
    /\ value = "None"
    /\ attempt = 0
    /\ sleeps = << >>
    /\ writes = << >>
    /\ jarRead = TRUE
    /\ shown = << >>
    /\ runRet = "none"

\* Neither click_oauth_button nor handle_authorization called.
OAuthIdle ==
    /\ selectors = << >>
    /\ selIdx = 0
    /\ probed = << >>
    /\ clicked = << >>
    /\ opUrl = << >>
    /\ opRet = "none"

\* StateManager instances.
Instances == {1, 2}

\* No StateManager constructed.
StateIdle ==
    /\ file = [kind |-> "absent", shape |-> "dict", entries |-> {}]
    /\ diskOk = TRUE
    /\ status = [n \in Instances |-> "new"]
    /\ mem = [n \in Instances |-> [shape |-> "dict", sites |-> << >>]]
    /\ loaded = [n \in Instances |-> [shape |-> "dict", sites |-> << >>]]
    /\ loadedAt = [n \in Instances |-> 0]
    /\ calls = << >>

\* mask_sensitive not called.
MaskIdle ==
    /\ maskValue = << >>
    /\ maskShow = 0
    /\ maskOut = [returned |-> FALSE, text |-> << >>]

\* No wrapped function called.
RetryIdle ==
    /\ max_attempts = 0
    /\ delay = 0
    /\ backoff = 0
    /\ current_delay = 0
    /\ invoked = << >>
    /\ naps = << >>
    /\ retryOut = "none"

\* main not started.
MainIdle ==
    /\ argv = FALSE
    /\ site_cfg = "ok"
    /\ creds = [username |-> FALSE, password |-> FALSE]
    /\ mainPc = "idle"
    /\ runResult = "none"
    /\ pending = "none"
    /\ exitCode = "none"

\* No TelegramNotifier in use.
TgIdle ==
    /\ tgEnabled = FALSE
    /\ tgPattern = "none"
    /\ inbox = << >>
    /\ tgOffset = 0
    /\ tgPc = "idle"
    /\ tgRet = [kind |-> "none", text |-> << >>]
    /\ tgPolls = 0
    /\ netCalls = 0

\* login_only.py not started.
ExportIdle ==
    /\ hasNotifier = FALSE
    /\ secretEnv = FALSE
    /\ loPc = "idle"
    /\ exported = << >>
    /\ loExit = "none"

LateIdle == TgIdle /\ ExportIdle

\* The stand-alone components have not run.
OthersIdle == StateIdle /\ MaskIdle /\ RetryIdle /\ MainIdle /\ LateIdle

\* No browser session: the stand-alone components run without one.
BrowserIdle ==
    /\ pc = "idle"
    /\ url = << >>
    /\ device_wait = 0
    /\ mobile_wait = 0
    /\ strategy = "auto"
    /\ notified = << >>
    /\ i = 0
    /\ LoginFresh
    /\ CallbackIdle
    /\ CookiesIdle
    /\ OAuthIdle

Init ==
    /\ pc = "login"
    /\ url \in LoginEntryUrls
    /\ \E c \in Configs :
        /\ device_wait = c.device_wait
        /\ mobile_wait = c.mobile_wait
        /\ strategy = c.strategy
    /\ notified = << >>
    /\ i = 0
    /\ LoginFresh
    /\ CallbackIdle
    /\ CookiesIdle
    /\ OAuthIdle
    /\ OthersIdle

Next ==
    \/ LoginFillCredentials
    \/ LoginSubmit
    \/ LoginSettle
    \/ DeviceVerificationStart
    \/ DeviceVerificationTick
    \/ DeviceVerificationFinal
    \/ LoginAfterDeviceVerification
    \/ LoginSkipTwoFactor
    \/ Handle2faMobileStart
    \/ Handle2faMobileTick
    \/ Handle2faMobileTimeout
    \/ Handle2faTotpStart
    \/ Handle2faTotpWait
    \/ FillTotpCodeTry
    \/ FillTotpCodeNotFound
    \/ LoginCheckError

Spec == Init /\ [][Next]_vars

\* ================================== OAuthFlowController.wait_callback
\* Pages of the site that asked for the login.
UrlSiteSignin == <<"https://", "site.example", "/", "signin">>
UrlSiteSigninNext == <<"https://", "site.example", "/", "signin", "?next=", "/", "dashboard">>

CallbackUrls ==
    { UrlAuthorize, UrlLoginPage, UrlSiteHome, UrlSiteSignin, UrlSiteSigninNext }

\* Success patterns: literal substrings, negated by a leading "!".
PatternAlphabet == { <<"dashboard">>, <<"site.example">>, <<"!", "signin">> }
PatternLists == UNION { [1..n -> PatternAlphabet] : n \in 1..MaxPatterns }

\* handle_authorization, lines 33-37: its authorize-button selectors.
AUTHORIZE_SELECTORS ==
    << "button[name=authorize]", "button:has-text(Authorize)", "button:has-text(authorize-zh)" >>

\* pattern.startswith("!") and pattern[1:]
StartsWithBang(p) == Len(p) > 0 /\ Head(p) = "!"
AfterBang(p) == Tail(p)

CallbackPatternStep_NegatedSucceeds(p, u) ==
    IF StartsWithBang(p)
    THEN IF ~Contains(AfterBang(p), u) THEN "success" ELSE "next"
    ELSE IF Contains(p, u) THEN "success" ELSE "next"

\* wait_callback, lines 62-70, one pattern on URL u: a negated pattern whose
\* substring is absent hits `continue`, one whose substring is present
\* falls out of the if; either way the loop goes on with the next pattern.
\* Only a positive pattern found in the URL returns True.
CallbackPatternStep(p, u) ==
    IF StartsWithBang(p)
    THEN IF ~Contains(AfterBang(p), u) THEN "continue" ELSE "next"
    ELSE IF Contains(p, u) THEN "success" ELSE "next"

\* Lines 61-70: the pattern loop from index k on.
RECURSIVE CallbackMatchFrom(_, _, _)
CallbackMatchFrom(ps, k, u) ==
    IF k > Len(ps) THEN FALSE
    ELSE IF CallbackPatternStep(ps[k], u) = "success" THEN TRUE
    ELSE CallbackMatchFrom(ps, k + 1, u)

CallbackMatch(ps, u) == CallbackMatchFrom(ps, 1, u)

\* handle_authorization, lines 28-51, as wait_callback calls it: on an
\* authorize page each selector that is visible is clicked; the call
\* returns after the first click whose settle succeeds, and an error after
\* a click goes on to the next selector, so it clicks 0 to 3 times.
AuthorizationClicks(u) ==
    IF Contains(OAUTH_AUTHORIZE, u) THEN 0..Len(AUTHORIZE_SELECTORS) ELSE {0}

NeedsAuthorization_Never(u) == FALSE

\* Line 73: the poll hands an authorize page to handle_authorization.
NeedsAuthorization(u) == Contains(OAUTH_AUTHORIZE, u)

\* SiteAdapter._check_already_logged_in (src/sites/base.py, lines 139-148)
\* from pattern k on: a negated pattern whose substring is in the URL, or a
\* positive pattern that is not in it, gives False.
RECURSIVE CheckAlreadyLoggedInFrom(_, _, _)
CheckAlreadyLoggedInFrom(ps, k, u) ==
    IF k > Len(ps) THEN TRUE
    ELSE IF StartsWithBang(ps[k])
         THEN IF Contains(AfterBang(ps[k]), u) THEN FALSE
              ELSE CheckAlreadyLoggedInFrom(ps, k + 1, u)
         ELSE IF ~Contains(ps[k], u) THEN FALSE
              ELSE CheckAlreadyLoggedInFrom(ps, k + 1, u)

CheckAlreadyLoggedIn(ps, u) == CheckAlreadyLoggedInFrom(ps, 1, u)

\* Lines 57-78, one iteration: read the URL, run the pattern loop, handle
\* an authorize page, sleep one second (the page may move meanwhile).
WaitCallbackPoll ==
    /\ pc = "cb_poll"
    /\ i < cb_timeout
    /\ polled' = Append(polled, url)
    /\ IF CallbackMatch(success_patterns, url)
       THEN /\ cbRet' = "true"
            /\ pc' = "cb_done"
            /\ UNCHANGED << url, i, authCalls, authClicks >>
       ELSE /\ authCalls' = IF NeedsAuthorization(url)
                            THEN authCalls + 1 ELSE authCalls
            /\ \E n \in IF NeedsAuthorization(url) THEN AuthorizationClicks(url) ELSE {0},
                  u \in CallbackUrls :
                /\ authClicks' = authClicks + n
                /\ url' = u
            /\ i' = i + 1
            /\ UNCHANGED << cbRet, pc >>
    /\ UNCHANGED << success_patterns, cb_timeout >>
    /\ UNCHANGED OutsideCallback

\* Lines 80-81: the loop ran out.
WaitCallbackTimeout ==
    /\ pc = "cb_poll"
    /\ i >= cb_timeout
    /\ cbRet' = "false"
    /\ pc' = "cb_done"
    /\ UNCHANGED << url, i, success_patterns, cb_timeout, polled, authCalls, authClicks >>
    /\ UNCHANGED OutsideCallback

InitCallback ==
    /\ pc = "cb_poll"
    /\ url \in CallbackUrls
    /\ i = 0
    /\ notified = << >>
    /\ success_patterns \in PatternLists
    /\ cb_timeout \in 1..MaxCallbackWait
    /\ polled = << >>
    /\ authCalls = 0
    /\ authClicks = 0
    /\ cbRet = "none"
    /\ device_wait = 0
    /\ mobile_wait = 0
    /\ strategy = "auto"
    /\ LoginFresh
    /\ CookiesIdle
    /\ OAuthIdle
    /\ OthersIdle

NextCallback ==
    \/ WaitCallbackPoll
    \/ WaitCallbackTimeout

SpecCallback == InitCallback /\ [][NextCallback]_vars

\* ===================== SiteAdapter._extract_and_save_cookies and below
\* Cookies the browser context can hold.
CookieAlphabet ==
    { [name |-> "user_session", value |-> "sess-1", domain |-> <<".", "github.com">>],
      [name |-> "user_session", value |-> "sess-2", domain |-> <<"example.com">>],
      [name |-> "logged_in", value |-> "yes", domain |-> <<"github.com">>],
      [name |-> "logged_in", value |-> "", domain |-> <<".", "github.com">>] }
Jars == UNION { [1..n -> CookieAlphabet] : n \in 0..MaxJar }

CookieNameLists == { <<"user_session">>, <<"user_session", "logged_in">> }
CookieDomains == { <<"github.com">>, <<".", "github.com">> }
TargetTypes == {"github_secret", "file", "env"}
TargetLists == UNION { [1..n -> TargetTypes] : n \in 1..MaxTargets }

LStripDot_Keep(d) == d

\* domain.lstrip('.')
RECURSIVE LStripDot(_)
LStripDot(d) == IF Len(d) > 0 /\ Head(d) = "." THEN LStripDot(Tail(d)) ELSE d

\* CookieManager.extract_session, lines 41-48: the value of the first
\* cookie, in jar order from index k, with that name and a domain that
\* contains the stripped target domain; None without one.
RECURSIVE ExtractSessionFrom(_, _, _, _)
ExtractSessionFrom(cookies, k, domain, name) ==
    IF k > Len(cookies) THEN "None"
    ELSE IF cookies[k].name = name /\ Contains(LStripDot(domain), cookies[k].domain)
         THEN cookies[k].value
         ELSE ExtractSessionFrom(cookies, k + 1, domain, name)

ExtractSession(cookies, domain, name) == ExtractSessionFrom(cookies, 1, domain, name)

\* Python truth of an Optional[str].
Truthy(v) == v # "None" /\ v # ""

\* @retry_network(max_attempts=3, delay=2.0) on _save_to_github_secret
RETRY_MAX_ATTEMPTS == 3
RETRY_DELAY == 2
\* RetryConfig.BACKOFF_FACTOR
BACKOFF_FACTOR == 2

\* retry wrapper, lines 43-64: the delay slept after failed attempt k.
RECURSIVE RetryDelayAfter(_)
RetryDelayAfter(k) == IF k <= 1 THEN RETRY_DELAY ELSE RetryDelayAfter(k - 1) * BACKOFF_FACTOR

\* The characters of the cookie values of CookieAlphabet.
CookieText(v) ==
    CASE v = "sess-1" -> <<"a", "b", "c", "d", "e", "f", "g", "h", "i", "j", "k", "l", "m", "n">>
      [] v = "sess-2" -> <<"x", "y", "z">>
      [] v = "yes" -> <<"y", "e", "s">>
      [] OTHER -> << >>

Stars(n) == [k \in 1..n |-> "*"]
\* value[:n] and value[-n:] of Python (value[-0:] is the whole value)
FirstChars(t, n) == SubSeq(t, 1, IF n < Len(t) THEN n ELSE Len(t))
LastChars(t, n) == IF n = 0 \/ n >= Len(t) THEN t ELSE SubSeq(t, Len(t) - n + 1, Len(t))

\* mask_sensitive (src/utils/security.py, lines 18-25)
MaskSensitive(t, show_chars) ==
    IF Len(t) = 0 THEN << >>
    ELSE IF Len(t) <= show_chars * 2 THEN Stars(Len(t))
    ELSE FirstChars(t, show_chars) \o Stars(Len(t) - show_chars * 2) \o LastChars(t, show_chars)

\* show_chars of the log line of extract_session (the default) and of the
\* manual-update message of _save_to_github_secret
MASK_DEFAULT_CHARS == 4
MASK_SECRET_CHARS == 6

\* extract_session found an entry (string v) or not ("None").
Found(v) == v # "None"

\* What _save_to_file tells the Notifier (lines 141-146).
FileNotice_AlwaysSaved(ok) == <<"FILE_SAVED", "SUCCESS">>
FileNotice(ok) ==
    IF ok THEN <<"FILE_SAVED", "SUCCESS">> ELSE <<"FILE_SAVE_FAILED", "ERROR">>

\* _extract_and_save_cookies, lines 175-186, one cookie name, with the
\* entry of save_cookies (line 52).  context.cookies() raising is caught in
\* extract_session and gives None.
ExtractCookie ==
    /\ pc = "extract"
    /\ nameIdx <= Len(cookie_names)
    /\ \E jarOk \in BOOLEAN :
        LET v == IF jarOk
                 THEN ExtractSession(jar, cookie_domain, cookie_names[nameIdx])
                 ELSE "None"
        IN  /\ value' = v
            /\ jarRead' = jarOk
            /\ shown' = IF Found(v)
                        THEN Append(shown, [by |-> "log",
                                            text |-> MaskSensitive(CookieText(v), MASK_DEFAULT_CHARS)])
                        ELSE shown
            /\ IF Truthy(v)
               THEN /\ pc' = "save"
                    /\ targetIdx' = 1
                    /\ attempt' = 1
                    /\ UNCHANGED nameIdx
               ELSE /\ nameIdx' = nameIdx + 1
                    /\ UNCHANGED << pc, targetIdx, attempt >>
    /\ UNCHANGED << jar, cookie_domain, cookie_names, cookie_targets, envReady,
                    sleeps, writes, runRet, notified >>
    /\ UNCHANGED OutsideCookies

\* nameIdx = 0 marks a save_cookies call made on its own, as login_only.py
\* makes it, outside the loop over cookie names.
Written(outcome) ==
    Append(writes, <<IF nameIdx = 0 THEN "direct" ELSE cookie_names[nameIdx],
                     cookie_targets[targetIdx], outcome>>)

SecretOutcomes == {"ok", "import_error", "request_error"}

\* _save_to_github_secret under the retry wrapper, one attempt (lines
\* 71-130 and retry lines 45-64).  A RequestException is notified and
\* re-raised; the wrapper sleeps and tries again, and after the last
\* attempt raises it to save_cookies, _extract_and_save_cookies and run,
\* whose `except Exception` (src/sites/base.py, lines 110-114) returns
\* False.
SaveToGithubSecret ==
    /\ pc = "save"
    /\ targetIdx <= Len(cookie_targets)
    /\ cookie_targets[targetIdx] = "github_secret"
    /\ IF ~envReady
       THEN /\ notified' = Notify("SECRET_MANUAL_UPDATE", "WARN")
            /\ shown' = Append(shown, [by |-> "notify",
                                       text |-> MaskSensitive(CookieText(value), MASK_SECRET_CHARS)])
            /\ writes' = Written("manual")
            /\ targetIdx' = targetIdx + 1
            /\ attempt' = 1
            /\ UNCHANGED << sleeps, runRet, pc >>
       ELSE /\ UNCHANGED shown
            /\ \E o \in SecretOutcomes :
                CASE o = "ok" ->
                      /\ notified' = Notify("SECRET_UPDATED", "SUCCESS")
                      /\ writes' = Written("saved")
                      /\ targetIdx' = targetIdx + 1
                      /\ attempt' = 1
                      /\ UNCHANGED << sleeps, runRet, pc >>
                  [] o = "import_error" ->
                      /\ notified' = Notify("PYNACL_MISSING", "ERROR")
                      /\ writes' = Written("failed")
                      /\ targetIdx' = targetIdx + 1
                      /\ attempt' = 1
                      /\ UNCHANGED << sleeps, runRet, pc >>
                  [] o = "request_error" ->
                      /\ notified' = Notify("SECRET_UPDATE_FAILED", "ERROR")
                      /\ IF attempt = RETRY_MAX_ATTEMPTS
                         THEN /\ writes' = Written("failed")
                              /\ runRet' = IF nameIdx = 0 THEN runRet ELSE "false"
                              /\ pc' = IF nameIdx = 0 THEN "save_raised" ELSE "run_done"
                              /\ UNCHANGED << sleeps, attempt, targetIdx >>
                         ELSE /\ sleeps' = Append(sleeps, RetryDelayAfter(attempt))
                              /\ attempt' = attempt + 1
                              /\ UNCHANGED << writes, runRet, pc, targetIdx >>
    /\ UNCHANGED << jar, cookie_domain, cookie_names, cookie_targets, envReady,
                    nameIdx, value, jarRead >>
    /\ UNCHANGED OutsideCookies

\* _save_to_file, lines 134-146: every exception is caught and notified.
SaveToFile ==
    /\ pc = "save"
    /\ targetIdx <= Len(cookie_targets)
    /\ cookie_targets[targetIdx] = "file"
    /\ \E ok \in BOOLEAN :
        /\ notified' = Append(notified, FileNotice(ok))
        /\ writes' = Written(IF ok THEN "saved" ELSE "failed")
    /\ targetIdx' = targetIdx + 1
    /\ UNCHANGED << jar, cookie_domain, cookie_names, cookie_targets, envReady,
                    nameIdx, value, attempt, sleeps, runRet, pc, jarRead, shown >>
    /\ UNCHANGED OutsideCookies

\* _save_to_env, lines 150-154: only a notification.
SaveToEnv ==
    /\ pc = "save"
    /\ targetIdx <= Len(cookie_targets)
    /\ cookie_targets[targetIdx] = "env"
    /\ notified' = Notify("ENV_HINT", "WARN")
    /\ shown' = Append(shown, [by |-> "notify", text |-> CookieText(value)])
    /\ writes' = Written("hint")
    /\ targetIdx' = targetIdx + 1
    /\ UNCHANGED << jar, cookie_domain, cookie_names, cookie_targets, envReady,
                    nameIdx, value, attempt, sleeps, runRet, pc, jarRead >>
    /\ UNCHANGED OutsideCookies

\* save_cookies, line 55: the target loop is over; back in
\* _extract_and_save_cookies with the next cookie name, or back in the
\* caller of a call made on its own.
SaveCookiesReturn ==
    /\ pc = "save"
    /\ targetIdx > Len(cookie_targets)
    /\ nameIdx' = IF nameIdx = 0 THEN 0 ELSE nameIdx + 1
    /\ pc' = IF nameIdx = 0 THEN "save_returned" ELSE "extract"
    /\ UNCHANGED << jar, cookie_domain, cookie_names, cookie_targets, envReady,
                    targetIdx, value, attempt, sleeps, writes, runRet, notified,
                    jarRead, shown >>
    /\ UNCHANGED OutsideCookies

\* run, lines 104-108: all names handled, run returns True.
RunReturnTrue ==
    /\ pc = "extract"
    /\ nameIdx > Len(cookie_names)
    /\ runRet' = "true"
    /\ pc' = "run_done"
    /\ UNCHANGED << jar, cookie_domain, cookie_names, cookie_targets, envReady,
                    nameIdx, targetIdx, value, attempt, sleeps, writes, notified,
                    jarRead, shown >>
    /\ UNCHANGED OutsideCookies

\* run has verified the login (line 94) and starts on the cookies.
InitCookies ==
    /\ pc = "extract"
    /\ url = UrlSiteHome
    /\ i = 0
    /\ notified = << >>
    /\ jar \in Jars
    /\ cookie_domain \in CookieDomains
    /\ cookie_names \in CookieNameLists
    /\ cookie_targets \in TargetLists
    /\ envReady \in BOOLEAN
    /\ nameIdx = 1
    /\ targetIdx = 0
    /\ value = "None"
    /\ attempt = 0
    /\ sleeps = << >>
    /\ writes = << >>
    /\ jarRead = TRUE
    /\ shown = << >>
    /\ runRet = "none"
    /\ device_wait = 0
    /\ mobile_wait = 0
    /\ strategy = "auto"
    /\ LoginFresh
    /\ CallbackIdle
    /\ OAuthIdle
    /\ OthersIdle

NextCookies ==
    \/ ExtractCookie
    \/ SaveToGithubSecret
    \/ SaveToFile
    \/ SaveToEnv
    \/ SaveCookiesReturn
    \/ RunReturnTrue

SpecCookies == InitCookies /\ [][NextCookies]_vars

\* ---------------------------------- CookieManager.save_cookies on its own
\* The values a caller can pass: None, the empty string, a cookie value.
SaveValues == {"None", "", "sess-1", "sess-2"}
SaveTargetLists == UNION { [1..n -> TargetTypes] : n \in 0..MaxTargets }

ProceedsToSave_Always(v) == TRUE

\* Lines 52-53: `if not value: return`.
ProceedsToSave(v) == Truthy(v)

\* save_cookies, lines 50-55: the entry.
SaveCookiesEnter ==
    /\ pc = "save_cookies"
    /\ IF ProceedsToSave(value)
       THEN /\ pc' = "save"
            /\ targetIdx' = 1
            /\ attempt' = 1
       ELSE /\ pc' = "save_returned"
            /\ UNCHANGED << targetIdx, attempt >>
    /\ UNCHANGED << jar, cookie_domain, cookie_names, cookie_targets, envReady,
                    nameIdx, value, sleeps, writes, runRet, notified, jarRead, shown >>
    /\ UNCHANGED OutsideCookies

InitSave ==
    /\ pc = "save_cookies"
    /\ url = UrlSiteHome
    /\ i = 0
    /\ notified = << >>
    /\ jar = << >>
    /\ cookie_domain = << >>
    /\ cookie_names = << >>
    /\ cookie_targets \in SaveTargetLists
    /\ envReady \in BOOLEAN
    /\ nameIdx = 0
    /\ targetIdx = 0
    /\ value \in SaveValues
    /\ attempt = 0
    /\ sleeps = << >>
    /\ writes = << >>
    /\ jarRead = TRUE
    /\ shown = << >>
    /\ runRet = "none"
    /\ device_wait = 0
    /\ mobile_wait = 0
    /\ strategy = "auto"
    /\ LoginFresh
    /\ CallbackIdle
    /\ OAuthIdle
    /\ OthersIdle

NextSave ==
    \/ SaveCookiesEnter
    \/ SaveToGithubSecret
    \/ SaveToFile
    \/ SaveToEnv
    \/ SaveCookiesReturn

SpecSave == InitSave /\ [][NextSave]_vars

\* ========== OAuthFlowController.click_oauth_button, handle_authorization
\* Longest oauth_button_selectors list tried.
MaxSelectors == 2

\* SiteConfig.oauth_button_selectors
ButtonAlphabet == { "a.github-login", "button:has-text(GitHub)" }
SelectorLists == UNION { [1..n -> ButtonAlphabet] : n \in 0..MaxSelectors }

\* One pass of the loop body of click_oauth_button (lines 14-21): the probe
\* is_visible, then element.click(); `except Exception: pass` swallows
\* every error and the loop goes on.
ClickTryOutcomes == {"hidden", "probe_raises", "click_raises", "clicked"}

ProbeResult(o) ==
    IF o = "hidden" THEN "hidden" ELSE IF o = "probe_raises" THEN "raises" ELSE "visible"

AfterClick_KeepProbing(o) == "click_oauth"

\* Lines 17-19: a click that returned ends the call.
AfterClick(o) == IF o = "clicked" THEN "click_done" ELSE "click_oauth"

ClickOauthTry ==
    /\ pc = "click_oauth"
    /\ selIdx <= Len(selectors)
    /\ \E o \in ClickTryOutcomes :
        /\ probed' = Append(probed, <<selectors[selIdx], ProbeResult(o)>>)
        /\ clicked' = IF o = "clicked" THEN Append(clicked, <<selectors[selIdx], "ok">>)
                      ELSE IF o = "click_raises"
                           THEN Append(clicked, <<selectors[selIdx], "raises">>)
                           ELSE clicked
        /\ pc' = AfterClick(o)
        /\ opRet' = IF AfterClick(o) = "click_done" THEN "true" ELSE opRet
        /\ selIdx' = selIdx + 1
    /\ UNCHANGED << url, selectors, opUrl >>
    /\ UNCHANGED OutsideOAuth

\* Lines 23-24: no selector was clicked.
ClickOauthNotFound ==
    /\ pc = "click_oauth"
    /\ selIdx > Len(selectors)
    /\ opRet' = "false"
    /\ pc' = "click_done"
    /\ UNCHANGED << url, selectors, selIdx, probed, clicked, opUrl >>
    /\ UNCHANGED OutsideOAuth

\* handle_authorization, lines 28-29: off the authorize page the call
\* returns True at once.
HandleAuthorizationEnter ==
    /\ pc = "authorize"
    /\ opUrl' = url
    /\ IF ~Contains(OAUTH_AUTHORIZE, url)
       THEN /\ opRet' = "true"
            /\ pc' = "auth_done"
            /\ UNCHANGED selIdx
       ELSE /\ selIdx' = 1
            /\ pc' = "auth_probe"
            /\ UNCHANGED opRet
    /\ UNCHANGED << url, selectors, probed, clicked >>
    /\ UNCHANGED OutsideOAuth

\* One pass of the loop body (lines 39-49): probe, click, sleep, settle
\* wait.  Every error is swallowed and the loop goes on, also after a click.
AuthorizeTryOutcomes ==
    {"hidden", "probe_raises", "click_raises", "clicked_settled", "clicked_load_raises"}

AuthorizationResult_NeedsClick(cl) ==
    IF \E k \in 1..Len(cl) : cl[k][2] = "ok" THEN "true" ELSE "false"

\* Lines 47 and 51: the value handle_authorization returns, whatever was
\* clicked.
AuthorizationResult(cl) == "true"

\* The page may leave the authorize page by itself while it is probed, and
\* moves after a click.
HandleAuthorizationTry ==
    /\ pc = "auth_probe"
    /\ selIdx <= Len(selectors)
    /\ \E o \in AuthorizeTryOutcomes, u \in CallbackUrls :
        /\ url' = u
        /\ probed' = Append(probed, <<selectors[selIdx], ProbeResult(o)>>)
        /\ clicked' = IF o \in {"clicked_settled", "clicked_load_raises"}
                      THEN Append(clicked, <<selectors[selIdx], "ok">>)
                      ELSE IF o = "click_raises"
                           THEN Append(clicked, <<selectors[selIdx], "raises">>)
                           ELSE clicked
        /\ selIdx' = selIdx + 1
        /\ IF o = "clicked_settled"
           THEN /\ opRet' = AuthorizationResult(clicked')
                /\ pc' = "auth_done"
           ELSE UNCHANGED << opRet, pc >>
    /\ UNCHANGED << selectors, opUrl >>
    /\ UNCHANGED OutsideOAuth

\* Line 51: the selectors ran out.
HandleAuthorizationEnd ==
    /\ pc = "auth_probe"
    /\ selIdx > Len(selectors)
    /\ opRet' = AuthorizationResult(clicked)
    /\ pc' = "auth_done"
    /\ UNCHANGED << url, selectors, selIdx, probed, clicked, opUrl >>
    /\ UNCHANGED OutsideOAuth

\* SiteAdapter.run calls click_oauth_button on the site's login page (line
\* 54) and handle_authorization on whatever page followed (lines 78-80, and
\* wait_callback line 73).
InitOAuth ==
    /\ \/ /\ pc = "click_oauth"
          /\ url = UrlSiteSignin
          /\ selectors \in SelectorLists
          /\ selIdx = 1
       \/ /\ pc = "authorize"
          /\ url \in CallbackUrls
          /\ selectors = AUTHORIZE_SELECTORS
          /\ selIdx = 0
    /\ probed = << >>
    /\ clicked = << >>
    /\ opUrl = << >>
    /\ opRet = "none"
    /\ i = 0
    /\ notified = << >>
    /\ device_wait = 0
    /\ mobile_wait = 0
    /\ strategy = "auto"
    /\ LoginFresh
    /\ CallbackIdle
    /\ CookiesIdle
    /\ OthersIdle

NextOAuth ==
    \/ ClickOauthTry
    \/ ClickOauthNotFound
    \/ HandleAuthorizationEnter
    \/ HandleAuthorizationTry
    \/ HandleAuthorizationEnd

SpecOAuth == InitOAuth /\ [][NextOAuth]_vars

\* ======================================================== StateManager
\* src/core/state_manager.py.  The state file holds either nothing usable or
\* a JSON document; the JSON text of an object is modelled as the set of its
\* <<key, value>> members, the in-memory dict as a function on its keys.
\* Only the four counters of a site record are kept; the timestamps and
\* flags written beside them are never read back by the code modelled.

MaxCalls == 4

\* The calls of the second instance, the concurrent run, within MaxCalls.
MaxOtherCalls == 1

Sites == {"s1", "s2"}

\* Line 61-66: the record a site gets on its first attempt.
NewRecord ==
    [total_attempts |-> 0, total_successes |-> 0,
     total_failures |-> 0, consecutive_failures |-> 0]

\* A record left by earlier runs: three attempts, the last two failed.
OldRecord ==
    [total_attempts |-> 3, total_successes |-> 1,
     total_failures |-> 2, consecutive_failures |-> 2]

EmptyState == [shape |-> "dict", sites |-> << >>]

\* json.dumps of the in-memory dict (line 37).
Dumps(st) == {<<s, st.sites[s]>> : s \in DOMAIN st.sites}

\* json.loads of an object text (line 27).
Loads(entries) ==
    [s \in {e[1] : e \in entries} |-> (CHOOSE e \in entries : e[1] = s)[2]]

\* What the state file can be before the first instance is constructed:
\* missing; present but not readable (read_text raises an IOError); text that
\* is not JSON; bytes that are not UTF-8; a JSON document that is not an
\* object; a JSON object written by an earlier run.
FileAbsent == [kind |-> "absent", shape |-> "dict", entries |-> {}]
FileUnreadable == [kind |-> "unreadable", shape |-> "dict", entries |-> {}]
FileBadJson == [kind |-> "bad_json", shape |-> "dict", entries |-> {}]
FileBadUtf8 == [kind |-> "bad_utf8", shape |-> "dict", entries |-> {}]
FileJsonList == [kind |-> "json", shape |-> "other", entries |-> {}]
FileJsonOld == [kind |-> "json", shape |-> "dict", entries |-> {<<"s1", OldRecord>>}]

\* <<state file, whether write_text succeeds>>.
StateConfigs ==
    {<<FileAbsent, TRUE>>, <<FileAbsent, FALSE>>, <<FileUnreadable, TRUE>>,
     <<FileBadJson, TRUE>>, <<FileBadUtf8, TRUE>>, <<FileJsonList, TRUE>>,
     <<FileJsonOld, TRUE>>, <<FileJsonOld, FALSE>>}

\* _load, lines 23-31: what it returns, or that it raised.  The except clause
\* lists json.JSONDecodeError and IOError; the UnicodeDecodeError that
\* read_text(encoding='utf-8') raises on other bytes is neither.
LoadResult(f) ==
    CASE f.kind = "absent" -> [raised |-> FALSE, state |-> EmptyState]
      [] f.kind \in {"unreadable", "bad_json"} -> [raised |-> FALSE, state |-> EmptyState]
      [] f.kind = "bad_utf8" -> [raised |-> TRUE, state |-> EmptyState]
      [] f.kind = "json" ->
            [raised |-> FALSE,
             state |-> [shape |-> f.shape,
                        sites |-> IF f.shape = "dict" THEN Loads(f.entries) ELSE << >>]]

\* __init__, lines 14-21.
StateConstruct(n) ==
    /\ status[n] = "new"
    /\ LET r == LoadResult(file) IN
        /\ status' = [status EXCEPT ![n] = IF r.raised THEN "init_raised" ELSE "ready"]
        /\ mem' = [mem EXCEPT ![n] = r.state]
        /\ loaded' = [loaded EXCEPT ![n] = r.state]
    /\ loadedAt' = [loadedAt EXCEPT ![n] = Len(calls)]
    /\ UNCHANGED << file, diskOk, calls, OutsideState >>

RecordBase_Reload(memState, fileState) ==
    IF fileState.kind = "json" /\ fileState.shape = "dict"
    THEN [shape |-> "dict", sites |-> Loads(fileState.entries)]
    ELSE memState

\* Lines 60-68: the record updated is the one in self.state; the file is not
\* read again.
RecordBase(memState, fileState) == memState

Recorded_KeepStreak(sites, site, success) ==
    LET before == IF site \in DOMAIN sites THEN sites[site] ELSE NewRecord
        after ==
            IF success
            THEN [before EXCEPT !.total_attempts = @ + 1,
                                !.total_successes = @ + 1]
            ELSE [before EXCEPT !.total_attempts = @ + 1,
                                !.total_failures = @ + 1,
                                !.consecutive_failures = @ + 1]
    IN  [s \in DOMAIN sites \cup {site} |-> IF s = site THEN after ELSE sites[s]]

Recorded_AllSites(sites, site, success) ==
    LET after(before) ==
            IF success
            THEN [before EXCEPT !.total_attempts = @ + 1,
                                !.total_successes = @ + 1,
                                !.consecutive_failures = 0]
            ELSE [before EXCEPT !.total_attempts = @ + 1,
                                !.total_failures = @ + 1,
                                !.consecutive_failures = @ + 1]
    IN  [s \in DOMAIN sites \cup {site} |->
            after(IF s \in DOMAIN sites THEN sites[s] ELSE NewRecord)]

\* Lines 60-84 on the counters of one site.
Recorded(sites, site, success) ==
    LET before == IF site \in DOMAIN sites THEN sites[site] ELSE NewRecord
        after ==
            IF success
            THEN [before EXCEPT !.total_attempts = @ + 1,
                                !.total_successes = @ + 1,
                                !.consecutive_failures = 0]
            ELSE [before EXCEPT !.total_attempts = @ + 1,
                                !.total_failures = @ + 1,
                                !.consecutive_failures = @ + 1]
    IN  [s \in DOMAIN sites \cup {site} |-> IF s = site THEN after ELSE sites[s]]

Saved_Never(st, f, ok) == f

\* save, lines 33-41: write_text replaces the whole file; an IOError is
\* logged and swallowed.
Saved(st, f, ok) ==
    IF ok THEN [kind |-> "json", shape |-> "dict", entries |-> Dumps(st)] ELSE f

\* record_login_attempt, lines 43-86.  On a state that is not a dict the
\* membership test or the item assignment of lines 60-61 raises TypeError.
RecordLoginAttempt(n, site, success) ==
    /\ status[n] = "ready"
    /\ Len(calls) < MaxCalls
    /\ n # 1 => Cardinality({k \in 1..Len(calls) : calls[k][1] = n}) < MaxOtherCalls
    /\ LET base == RecordBase(mem[n], file) IN
        IF base.shape # "dict"
        THEN /\ status' = [status EXCEPT ![n] = "record_raised"]
             /\ UNCHANGED << file, mem, calls >>
        ELSE LET st == [shape |-> "dict", sites |-> Recorded(base.sites, site, success)] IN
             /\ mem' = [mem EXCEPT ![n] = st]
             /\ file' = Saved(st, file, diskOk)
             /\ calls' = Append(calls, <<n, site, success>>)
             /\ UNCHANGED status
    /\ UNCHANGED << diskOk, loaded, loadedAt, OutsideState >>

IsHealthy_AtMost(sites, site, m) ==
    site \notin DOMAIN sites \/ sites[site].consecutive_failures <= m

\* is_healthy, lines 99-114.
IsHealthy(sites, site, m) ==
    site \notin DOMAIN sites \/ sites[site].consecutive_failures < m

\* Line 99: the default of max_consecutive_failures.
DEFAULT_MAX_CONSECUTIVE_FAILURES == 3

InitState ==
    /\ \E c \in StateConfigs :
        /\ file = c[1]
        /\ diskOk = c[2]
    /\ status = [n \in Instances |-> "new"]
    /\ mem = [n \in Instances |-> EmptyState]
    /\ loaded = [n \in Instances |-> EmptyState]
    /\ loadedAt = [n \in Instances |-> 0]
    /\ calls = << >>
    /\ BrowserIdle
    /\ MaskIdle
    /\ RetryIdle
    /\ MainIdle
    /\ LateIdle

NextState ==
    \/ \E n \in Instances : StateConstruct(n)
    \/ \E n \in Instances, site \in Sites, success \in BOOLEAN :
            RecordLoginAttempt(n, site, success)

SpecState == InitState /\ [][NextState]_vars

\* ====================================================== mask_sensitive
\* src/utils/security.py, called on its own.
MaxMaskLen == 4
MaxShow == 2

MaskAlphabet == {"a", "b"}
MaskValues == UNION { [1..n -> MaskAlphabet] : n \in 0..MaxMaskLen }

\* mask_sensitive(value, show_chars), lines 4-25.
MaskCall ==
    /\ ~maskOut.returned
    /\ maskOut' = [returned |-> TRUE, text |-> MaskSensitive(maskValue, maskShow)]
    /\ UNCHANGED << maskValue, maskShow, OutsideMask >>

InitMask ==
    /\ maskValue \in MaskValues
    /\ maskShow \in 0..MaxShow
    /\ maskOut = [returned |-> FALSE, text |-> << >>]
    /\ BrowserIdle
    /\ StateIdle
    /\ RetryIdle
    /\ MainIdle
    /\ LateIdle

NextMask == MaskCall

SpecMask == InitMask /\ [][NextMask]_vars

\* =============================================================== retry
\* src/utils/retry.py: a function wrapped by retry(max_attempts, delay,
\* backoff, exceptions).  The wrapped function is the environment: each
\* invocation returns a value, raises an exception the decorator lists, or
\* raises another one.  Delays are whole numbers of a time unit.
MaxRetryAttempts == 3
MaxRetryDelay == 2
MaxBackoff == 3

ReturnValues == {"v1", "v2"}
InvocationOutcomes == ReturnValues \cup {"listed", "unlisted"}

IsLastAttempt_Never(attempt_no, n) == FALSE

\* Line 48.
IsLastAttempt(attempt_no, n) == attempt_no = n

\* One turn of the loop of wrapper, lines 45-64.
RetryInvoke ==
    /\ retryOut = "running"
    /\ Len(invoked) < max_attempts
    /\ \E o \in InvocationOutcomes :
        /\ invoked' = Append(invoked, o)
        /\ CASE o \in ReturnValues ->
                  /\ retryOut' = o
                  /\ UNCHANGED << naps, current_delay >>
             [] o = "unlisted" ->
                  /\ retryOut' = "raised_unlisted"
                  /\ UNCHANGED << naps, current_delay >>
             [] o = "listed" ->
                  IF IsLastAttempt(Len(invoked) + 1, max_attempts)
                  THEN /\ retryOut' = "raised_listed"
                       /\ UNCHANGED << naps, current_delay >>
                  ELSE /\ naps' = Append(naps, current_delay)
                       /\ current_delay' = current_delay * backoff
                       /\ UNCHANGED retryOut
    /\ UNCHANGED << max_attempts, delay, backoff, OutsideRetry >>

\* Line 66: the loop ran out.
RetryLoopEnd ==
    /\ retryOut = "running"
    /\ Len(invoked) >= max_attempts
    /\ retryOut' = "raised_runtime"
    /\ UNCHANGED << max_attempts, delay, backoff, current_delay, invoked, naps, OutsideRetry >>

\* The call of the wrapper, line 43.
InitRetry ==
    /\ max_attempts \in 0..MaxRetryAttempts
    /\ delay \in 1..MaxRetryDelay
    /\ backoff \in 1..MaxBackoff
    /\ current_delay = delay
    /\ invoked = << >>
    /\ naps = << >>
    /\ retryOut = "running"
    /\ BrowserIdle
    /\ StateIdle
    /\ MaskIdle
    /\ MainIdle
    /\ LateIdle

NextRetry ==
    \/ RetryInvoke
    \/ RetryLoopEnd

SpecRetry == InitRetry /\ [][NextRetry]_vars

\* ================================================================ main
\* src/main.py, lines 70-115.  sys.exit raises SystemExit, which the
\* `except Exception` of line 111 does not catch; an exception raised in the
\* finally clause of line 108 replaces whatever was propagating.
SiteCfgKinds == {"ok", "unknown", "disabled", "no_file", "incomplete"}
CredKinds == [username : BOOLEAN, password : BOOLEAN]
RunResults == {"true", "false", "raised"}

\* Lines 72-77.
MainCheckArgs ==
    /\ mainPc = "argv"
    /\ IF argv
       THEN mainPc' = "load_config" /\ UNCHANGED exitCode
       ELSE mainPc' = "exited" /\ exitCode' = "1"
    /\ UNCHANGED << argv, site_cfg, creds, runResult, pending, OutsideMain >>

\* Line 81 with load_config, lines 12-58: a site that is not configured or
\* is disabled raises ValueError, a missing config file or a missing key
\* raises as well.
MainLoadConfig ==
    /\ mainPc = "load_config"
    /\ mainPc' = IF site_cfg = "ok" THEN "credentials" ELSE "except"
    /\ UNCHANGED << argv, site_cfg, creds, runResult, pending, exitCode, OutsideMain >>

\* Lines 82-88.
MainCredentials ==
    /\ mainPc = "credentials"
    /\ IF creds.username /\ creds.password
       THEN mainPc' = "launch" /\ UNCHANGED exitCode
       ELSE mainPc' = "exited" /\ exitCode' = "1"
    /\ UNCHANGED << argv, site_cfg, creds, runResult, pending, OutsideMain >>

\* Lines 91-103: the browser starts or an exception leaves the try block.
MainLaunch ==
    /\ mainPc = "launch"
    /\ \E ok \in BOOLEAN : mainPc' = IF ok THEN "run" ELSE "except"
    /\ UNCHANGED << argv, site_cfg, creds, runResult, pending, exitCode, OutsideMain >>

\* The code passed to sys.exit at line 107.
ExitFor(result) == IF result = "true" THEN "0" ELSE "1"

\* Lines 106-107.
MainRun ==
    /\ mainPc = "run"
    /\ \E result \in RunResults :
        /\ runResult' = result
        /\ pending' = IF result = "raised" THEN "none" ELSE ExitFor(result)
    /\ mainPc' = "close"
    /\ UNCHANGED << argv, site_cfg, creds, exitCode, OutsideMain >>

\* Lines 108-109: browser.close() in the finally clause.  When it returns,
\* the SystemExit or the exception of run goes on; when it raises, its
\* exception goes on instead.
MainClose ==
    /\ mainPc = "close"
    /\ \E closeOk \in BOOLEAN :
        IF closeOk /\ pending # "none"
        THEN mainPc' = "exited" /\ exitCode' = pending
        ELSE mainPc' = "except" /\ UNCHANGED exitCode
    /\ UNCHANGED << argv, site_cfg, creds, runResult, pending, OutsideMain >>

\* Lines 111-115.
MainExcept ==
    /\ mainPc = "except"
    /\ mainPc' = "exited"
    /\ exitCode' = "1"
    /\ UNCHANGED << argv, site_cfg, creds, runResult, pending, OutsideMain >>

InitMain ==
    /\ argv \in BOOLEAN
    /\ site_cfg \in SiteCfgKinds
    /\ creds \in CredKinds
    /\ mainPc = "argv"
    /\ runResult = "none"
    /\ pending = "none"
    /\ exitCode = "none"
    /\ BrowserIdle
    /\ StateIdle
    /\ MaskIdle
    /\ RetryIdle
    /\ LateIdle

NextMain ==
    \/ MainCheckArgs
    \/ MainLoadConfig
    \/ MainCredentials
    \/ MainLaunch
    \/ MainRun
    \/ MainClose
    \/ MainExcept

SpecMain == InitMain /\ [][NextMain]_vars

\* ==================================================== TelegramNotifier
\* src/notifiers/telegram.py as _handle_2fa_totp uses it
\* (src/core/github_auth.py, lines 268-280): the TOTP-needed notification,
\* then wait_user_input.  The bot API is the environment: it holds the
\* updates nobody confirmed yet, the human may send a message at any time,
\* and every request may fail.
MaxPolls == 2
MaxReplies == 2

\* chat ids as the API gives them (numbers) and TG_CHAT_ID (a string)
ChatIds == {42, 7}
ChatIdText(id) == IF id = 42 THEN "42" ELSE "7"
TG_CHAT_ID == "42"

\* Message texts, as tokens; " " is whitespace.
ReplyTexts ==
    { <<"/code", " ", "123456">>,
      <<" ", "/code", " ", "654321", " ">>,
      <<"/code", " ", "12">>,
      <<"hello">> }
CodeDigits == {"123456", "654321"}

\* str.strip()
RECURSIVE LStrip(_)
LStrip(t) == IF t # << >> /\ Head(t) = " " THEN LStrip(Tail(t)) ELSE t
RECURSIVE RStrip(_)
RStrip(t) == IF t # << >> /\ t[Len(t)] = " " THEN RStrip(SubSeq(t, 1, Len(t) - 1)) ELSE t
Strip(t) == RStrip(LStrip(t))

\* The patterns: r"^/code\s+(\d{6,8})$" of _handle_2fa_totp, and the same
\* without the group.
ReplyPatterns == {"code_group", "code_plain"}
RegexMatches(t) == Len(t) = 3 /\ t[1] = "/code" /\ t[2] = " " /\ t[3] \in CodeDigits
HasGroups(p) == p = "code_group"

\* Line 134: match.group(1) if match.groups() else text.
UserInput(p, t) == IF HasGroups(p) THEN << t[3] >> ELSE t

FromConfiguredChat_Any(id) == TRUE

\* Line 128.
FromConfiguredChat(id) == ChatIdText(id) = TG_CHAT_ID

\* The human (or anybody else) sends the bot a message.
HumanSends ==
    /\ tgPc \in {"start", "noticed", "polling"}
    /\ tgPolls < MaxPolls
    /\ Len(inbox) < MaxReplies
    /\ \E id \in ChatIds, t \in ReplyTexts :
        inbox' = Append(inbox, [chat |-> id, text |-> t,
                                sent |-> CASE tgPc = "start" -> "before_notice"
                                           [] tgPc = "noticed" -> "after_notice"
                                           [] OTHER -> "while_waiting"])
    /\ UNCHANGED << tgEnabled, tgPattern, tgOffset, tgPc, tgRet, tgPolls, netCalls,
                    OutsideTelegram >>

\* notify, lines 45-58, under retry_network: nothing when disabled, else the
\* message is sent, or the RequestException of the last attempt is raised.
NotifyOutcomes == IF tgEnabled THEN {"sent", "raised"} ELSE {"skipped"}

\* github_auth.py lines 268-271: the TOTP-needed notification.
TgNotice ==
    /\ tgPc = "start"
    /\ \E o \in NotifyOutcomes :
        /\ tgPc' = IF o = "raised" THEN "raised" ELSE "noticed"
        /\ netCalls' = IF o = "skipped" THEN netCalls ELSE netCalls + 1
    /\ UNCHANGED << tgEnabled, tgPattern, inbox, tgOffset, tgRet, tgPolls, OutsideTelegram >>

\* _flush_updates, lines 156-170: the offset after the last pending update,
\* 0 when there is none or the request failed.
FlushedOffset(updates, ok) == IF ok /\ updates # << >> THEN Len(updates) + 1 ELSE 0

\* wait_user_input, lines 100-108: the disabled case, else the flush and
\* the prompt.
TgEnter ==
    /\ tgPc = "noticed"
    /\ IF ~tgEnabled
       THEN /\ tgRet' = [kind |-> "None", text |-> << >>]
            /\ tgPc' = "returned"
            /\ UNCHANGED << tgOffset, netCalls >>
       ELSE \E flushOk \in BOOLEAN, o \in NotifyOutcomes :
            /\ tgOffset' = FlushedOffset(inbox, flushOk)
            /\ netCalls' = netCalls + 2
            /\ tgPc' = IF o = "raised" THEN "raised" ELSE "polling"
            /\ UNCHANGED tgRet
    /\ UNCHANGED << tgEnabled, tgPattern, inbox, tgPolls, OutsideTelegram >>

\* Lines 123-136 on the updates from position k on: the first message of the
\* configured chat whose stripped text matches, 0 when there is none.
RECURSIVE FirstReplyFrom(_, _)
FirstReplyFrom(updates, k) ==
    IF k > Len(updates) THEN 0
    ELSE IF FromConfiguredChat(updates[k].chat) /\ RegexMatches(Strip(updates[k].text))
         THEN k
         ELSE FirstReplyFrom(updates, k + 1)

\* Lines 110-142, one turn of the wait loop: getUpdates from the offset.
TgPoll ==
    /\ tgPc = "polling"
    /\ tgPolls < MaxPolls
    /\ tgPolls' = tgPolls + 1
    /\ netCalls' = netCalls + 1
    /\ \E answered \in BOOLEAN :
        LET from == IF tgOffset = 0 THEN 1 ELSE tgOffset
            hit == IF answered THEN FirstReplyFrom(inbox, from) ELSE 0
        IN  IF hit > 0
            THEN /\ tgRet' = [kind |-> "text",
                              text |-> UserInput(tgPattern, Strip(inbox[hit].text))]
                 /\ tgOffset' = hit + 1
                 /\ tgPc' = "returned"
            ELSE /\ tgOffset' = IF answered /\ Len(inbox) >= from
                                THEN Len(inbox) + 1 ELSE tgOffset
                 /\ UNCHANGED << tgRet, tgPc >>
    /\ UNCHANGED << tgEnabled, tgPattern, inbox, OutsideTelegram >>

\* Lines 144-145: the deadline passed.
TgTimeout ==
    /\ tgPc = "polling"
    /\ tgPolls >= MaxPolls
    /\ tgRet' = [kind |-> "None", text |-> << >>]
    /\ tgPc' = "returned"
    /\ UNCHANGED << tgEnabled, tgPattern, inbox, tgOffset, tgPolls, netCalls, OutsideTelegram >>

InitTelegram ==
    /\ tgEnabled \in BOOLEAN
    /\ tgPattern \in ReplyPatterns
    /\ inbox = << >>
    /\ tgOffset = 0
    /\ tgPc = "start"
    /\ tgRet = [kind |-> "none", text |-> << >>]
    /\ tgPolls = 0
    /\ netCalls = 0
    /\ BrowserIdle
    /\ StateIdle
    /\ MaskIdle
    /\ RetryIdle
    /\ MainIdle
    /\ ExportIdle

NextTelegram ==
    \/ HumanSends
    \/ TgNotice
    \/ TgEnter
    \/ TgPoll
    \/ TgTimeout

SpecTelegram == InitTelegram /\ [][NextTelegram]_vars

\* ========================================================== login_only
\* src/login_only.py, main: the login-only entry point.  exported is what
\* output_to_github_actions wrote, loExit the exit code of the process.
\* SystemExit is not an Exception: sys.exit inside the try block leaves
\* main without entering the handler of line 175.
SessionValues == {"s1", "s2", "s3"}

\* output_to_github_actions, lines 43-53: one session/status pair.
OutputToGithubActions(out, session_cookie, st) ==
    Append(out, [session |-> session_cookie, status |-> st])

\* Where a step inside the try block of lines 74-173 goes when it raises.
LoRaised == "handler"

\* Lines 76-98: the cookie preload, the login page and the logged-in probe.
LoStart ==
    /\ loPc = "start"
    /\ \E o \in {"logged_in", "needs_login", "raised"} :
        loPc' = CASE o = "logged_in" -> "extract"
                  [] o = "needs_login" -> "login"
                  [] OTHER -> LoRaised
    /\ UNCHANGED << hasNotifier, secretEnv, exported, loExit, OutsideExport >>

\* Lines 101-126: the login and its failure path.
LoLogin ==
    /\ loPc = "login"
    /\ \E o \in {"success", "failed", "failed_shot_raised", "failed_close_raised", "raised"} :
        CASE o = "success" ->
                /\ loPc' = "extract"
                /\ UNCHANGED << exported, loExit >>
          [] o = "failed" ->
                /\ exported' = OutputToGithubActions(exported, "", "failed")
                /\ loExit' = "1"
                /\ loPc' = "exited"
          [] o = "failed_close_raised" ->
                /\ exported' = OutputToGithubActions(exported, "", "failed")
                /\ loPc' = LoRaised
                /\ UNCHANGED loExit
          [] OTHER ->
                /\ loPc' = LoRaised
                /\ UNCHANGED << exported, loExit >>
    /\ UNCHANGED << hasNotifier, secretEnv, OutsideExport >>

\* Lines 130-149: the session cookie is looked up and exported.
LoExtract ==
    /\ loPc = "extract"
    /\ \E o \in {"found", "missing", "missing_close_raised", "raised"}, s \in SessionValues :
        CASE o = "found" ->
                /\ exported' = OutputToGithubActions(exported, s, "success")
                /\ loPc' = "secret"
                /\ UNCHANGED loExit
          [] o = "missing" ->
                /\ exported' = OutputToGithubActions(exported, "", "failed")
                /\ loExit' = "1"
                /\ loPc' = "exited"
          [] o = "missing_close_raised" ->
                /\ exported' = OutputToGithubActions(exported, "", "failed")
                /\ loPc' = LoRaised
                /\ UNCHANGED loExit
          [] OTHER ->
                /\ loPc' = LoRaised
                /\ UNCHANGED << exported, loExit >>
    /\ UNCHANGED << hasNotifier, secretEnv, OutsideExport >>

\* Lines 152-164: the secret update; its failure is printed and dropped.
LoSecret ==
    /\ loPc = "secret"
    /\ \E updated \in (IF secretEnv THEN BOOLEAN ELSE {FALSE}) :
        loPc' = IF updated THEN "notify_updated" ELSE "notify"
    /\ UNCHANGED << hasNotifier, secretEnv, exported, loExit, OutsideExport >>

\* Lines 166-170: the final message; notify raises the RequestException of
\* its last attempt.
LoNotify ==
    /\ loPc \in {"notify", "notify_updated"}
    /\ \E sent \in (IF hasNotifier THEN BOOLEAN ELSE {TRUE}) :
        loPc' = IF sent THEN "close" ELSE LoRaised
    /\ UNCHANGED << hasNotifier, secretEnv, exported, loExit, OutsideExport >>

\* Lines 172-173.
LoClose ==
    /\ loPc = "close"
    /\ \E closed \in BOOLEAN :
        IF closed
        THEN /\ loExit' = "0"
             /\ loPc' = "exited"
        ELSE /\ loPc' = LoRaised
             /\ UNCHANGED loExit
    /\ UNCHANGED << hasNotifier, secretEnv, exported, OutsideExport >>

\* Lines 175-188: the handler.  What raises here (the screenshot before the
\* export; the message, the photo or the close after it) ends the process
\* with the traceback and code 1, like sys.exit(1).
LoHandler ==
    /\ loPc = "handler"
    /\ \E shot \in BOOLEAN :
        exported' = IF shot THEN OutputToGithubActions(exported, "", "failed")
                    ELSE exported
    /\ loExit' = "1"
    /\ loPc' = "exited"
    /\ UNCHANGED << hasNotifier, secretEnv, OutsideExport >>

InitExport ==
    /\ hasNotifier \in BOOLEAN
    /\ secretEnv \in BOOLEAN
    /\ loPc = "start"
    /\ exported = << >>
    /\ loExit = "none"
    /\ BrowserIdle
    /\ StateIdle
    /\ MaskIdle
    /\ RetryIdle
    /\ MainIdle
    /\ TgIdle

NextExport ==
    \/ LoStart
    \/ LoLogin
    \/ LoExtract
    \/ LoSecret
    \/ LoNotify
    \/ LoClose
    \/ LoHandler

SpecExport == InitExport /\ [][NextExport]_vars

\* ===================================================== SiteAdapter.run
\* src/sites/base.py, lines 65-80: after the OAuth button was clicked, run
\* reads the URL once and chooses between the credential login,
\* handle_authorization and going straight to wait_callback.  The tests are
\* made in the order of the code.
AuthRoute(u) ==
    IF Contains(<<"github.com", "/", "login">>, u) \/ Contains(SESSION, u)
    THEN "login"
    ELSE IF Contains(OAUTH_AUTHORIZE, u)
         THEN "authorize"
         ELSE "callback"

\* Lines 67-80.
RunRoute ==
    /\ pc = "run_route"
    /\ pc' = AuthRoute(url)
    /\ UNCHANGED OutsideLogin
    /\ UNCHANGED << url, device_wait, mobile_wait, strategy, subflows, notified,
                    photos, screenshots, i, dvTicks, awayFrom, mobileTicks, code,
                    totpIdx, probes, fills, submits, flash, soft, phases, ret >>

\* The page the click of the OAuth button led to.
InitRun ==
    /\ pc = "run_route"
    /\ url \in Urls \cup CallbackUrls
    /\ \E c \in Configs :
        /\ device_wait = c.device_wait
        /\ mobile_wait = c.mobile_wait
        /\ strategy = c.strategy
    /\ notified = << >>
    /\ i = 0
    /\ LoginFresh
    /\ CallbackIdle
    /\ CookiesIdle
    /\ OAuthIdle
    /\ OthersIdle

\* The login is followed up to the credentials.
NextRun ==
    \/ RunRoute
    \/ LoginFillCredentials

SpecRun == InitRun /\ [][NextRun]_vars

\* ====================================================== claims on Spec
Last(sq) == sq[Len(sq)]
Sent(msg, level) == \E k \in 1..Len(notified) : notified[k] = <<msg, level>>

PhaseOrder ==
    << "credential_fill", "submit", "settle", "device_verification",
       "two_factor", "error_check" >>
PhaseIndex(p) == CHOOSE k \in 1..Len(PhaseOrder) : PhaseOrder[k] = p

\* C1: the phases of login start in the fixed order credential fill, submit,
\* settle, device verification, two-factor, error-flash check (the first
\* three always, the branches only when taken); when credential fill,
\* device verification or two-factor handling fails, login has returned
\* False and the failed phase is the last one started.
C1_PhasesInOrder ==
    /\ \A k \in 1..Len(phases) :
        /\ k <= 3 => phases[k] = PhaseOrder[k]
        /\ k < Len(phases) => PhaseIndex(phases[k]) < PhaseIndex(phases[k + 1])
    /\ ret.cred = "false" => ret.login = "false" /\ Last(phases) = "credential_fill"
    /\ ret.dv = "false" => ret.login = "false" /\ Last(phases) = "device_verification"
    /\ ret.tfa = "false" => ret.login = "false" /\ Last(phases) = "two_factor"
    /\ ret.login = "false" => pc = "done"

\* Device verification passed, then two-factor handling failed: five phases
\* ran in order and the sixth was never started.
C1_Witness ==
    /\ pc = "done"
    /\ ret.dv = "true"
    /\ ret.tfa = "false"
    /\ phases = SubSeq(PhaseOrder, 1, 5)

\* C2 (as claimed): in push-approval polling, a tick that finds the page on
\* the root login URL makes the call return False at that tick.
C2_RootLoginUrlFails ==
    (subflows = <<"mobile">> /\ mobileTicks > 0 /\ url = LOGIN)
        => (ret.tfa = "false" /\ pc = "done")

\* C3 (as claimed): once the URL has left the device-verification markers
\* at tick t and stays away, the call returns True within t + 1 ticks.
C3_ReturnsWithinOneTick ==
    /\ (pc = "dv_loop" /\ awayFrom > 0) => dvTicks <= awayFrom
    /\ (pc = "dv_settle" /\ awayFrom > 0) => dvTicks <= awayFrom + 1

\* The ticks (counted sleeps) after which the loop looks at the URL.
C3_RecheckTicks(w) == { n \in 1..w : (n - 1) % 5 = 0 /\ n > 1 }
\* The tick at which a call with budget w looks at the URL next, from tick t
\* on: the first re-check tick, or the final check after tick w.
C3_NextCheck(t, w) ==
    IF \E n \in C3_RecheckTicks(w) : n >= t
    THEN CHOOSE n \in C3_RecheckTicks(w) :
            n >= t /\ \A m \in C3_RecheckTicks(w) : m >= t => n <= m
    ELSE w

\* C3 (amended): once the URL has left the markers at tick t and stays
\* away, the call returns True at the first check made at or after tick t:
\* the in-loop re-checks come after ticks 6, 11, 16, ... and the final check
\* after the last tick; it never returns False and never runs past that
\* check.
C3_ReturnsAtNextCheck ==
    /\ (pc = "dv_loop" /\ awayFrom > 0) =>
          /\ dvTicks <= C3_NextCheck(awayFrom, device_wait)
          /\ dvTicks = C3_NextCheck(awayFrom, device_wait) => i >= device_wait
    /\ (pc = "dv_settle" /\ awayFrom > 0) =>
          dvTicks = C3_NextCheck(awayFrom, device_wait)
    /\ ret.dv = "false" => awayFrom = 0

\* The URL left at tick 7 and the call returned at tick 11.
C3_Witness ==
    /\ pc = "dv_settle"
    /\ ret.dv = "true"
    /\ awayFrom = 7
    /\ dvTicks = 11

\* C4: handle_device_verification never sleeps more than wait times; it
\* returns False only after all wait ticks, on a URL that is still on a
\* marker at the final check; a URL off the markers at the final check
\* gives True although no in-loop check reported it.
C4_FinalCheckDecides ==
    /\ dvTicks <= device_wait
    /\ ret.dv = "false" =>
          /\ pc = "done"
          /\ dvTicks = device_wait
          /\ OnDeviceVerification(url)
          /\ Sent("DEVICE_VERIFICATION_TIMEOUT", "ERROR")
    /\ pc = "dv_settle" =>
          /\ ret.dv = "true"
          /\ ~OnDeviceVerification(url)
          /\ ~Sent("DEVICE_VERIFICATION_PASSED", "SUCCESS") => dvTicks = device_wait

\* True from the final check, after in-loop re-checks that all saw a marker.
C4_Witness ==
    /\ pc = "dv_settle"
    /\ device_wait >= 6
    /\ dvTicks = device_wait
    /\ ~Sent("DEVICE_VERIFICATION_PASSED", "SUCCESS")

\* C5 (as claimed): when login has returned False, the Notifier has been
\* sent a message about the failure.
C5_FailureNotified ==
    ret.login = "false" => \E k \in 1..Len(notified) : notified[k][2] = "ERROR"

\* C9: handle_2fa enters exactly one sub-flow, push approval when the URL it
\* reads contains "two-factor/mobile" and TOTP entry otherwise, whatever
\* TwoFactorConfig.strategy says.
C9_RouteByUrlAlone ==
    /\ Len(subflows) <= 1
    /\ (\E k \in 1..Len(phases) : phases[k] = "two_factor") <=> Len(subflows) = 1
    /\ (pc = "mobile_loop" /\ mobileTicks = 0) =>
          subflows = <<"mobile">> /\ Contains(TWO_FACTOR_MOBILE, url)
    /\ pc = "totp_wait" =>
          subflows = <<"totp">> /\ ~Contains(TWO_FACTOR_MOBILE, url)
    /\ subflows = <<"mobile">> => pc \notin {"totp_wait", "totp_fill"} /\ fills = << >>
    /\ subflows = <<"totp">> => pc # "mobile_loop" /\ mobileTicks = 0

\* The strategy asks for push approval and the URL routes to TOTP entry.
C9_Witness ==
    /\ pc = "totp_wait"
    /\ strategy = "mobile"
    /\ subflows = <<"totp">>

\* Still waiting for the approval: on the two-factor page, not the login page.
C10_Pending(u) == Contains(TWO_FACTOR, u) /\ ~Contains(LOGIN, u)

\* C10: push-approval polling reads the URL once after each one-second
\* tick; it returns True at the first tick whose URL has no two-factor
\* marker (no such tick passes without a return); when every one of the
\* mobile_wait ticks found the page still pending it ends after exactly
\* mobile_wait ticks with False and the timeout notification.
C10_MobilePolling ==
    /\ mobileTicks <= mobile_wait
    /\ pc = "mobile_loop" =>
          /\ i = mobileTicks
          /\ mobileTicks > 0 => C10_Pending(url)
    /\ Sent("TWO_FACTOR_PASSED", "SUCCESS") =>
          /\ ret.tfa = "true"
          /\ mobileTicks >= 1
          /\ ~Contains(TWO_FACTOR, url)
    /\ (subflows = <<"mobile">> /\ ret.tfa = "true") => Sent("TWO_FACTOR_PASSED", "SUCCESS")
    /\ Sent("TWO_FACTOR_TIMEOUT", "ERROR") =>
          /\ ret.tfa = "false"
          /\ pc = "done"
          /\ mobileTicks = mobile_wait
          /\ C10_Pending(url)
    /\ (subflows = <<"mobile">> /\ ret.tfa = "false" /\ C10_Pending(url)) =>
          Sent("TWO_FACTOR_TIMEOUT", "ERROR")

\* The largest budget ran out with the page still pending.
C10_Witness ==
    /\ Sent("TWO_FACTOR_TIMEOUT", "ERROR")
    /\ mobile_wait = MaxMobileWait
    /\ mobileTicks = mobile_wait

\* C11: in the TOTP flow, when wait_user_input hands back no code, the call
\* has returned False (and login with it), the last notification is the
\* code-timeout one, and no one-time-code input was probed, filled or
\* submitted.
C11_NoCodeEndsTotp ==
    (subflows = <<"totp">> /\ pc # "totp_wait" /\ code = NoCode)
        => /\ pc = "done"
           /\ ret.tfa = "false"
           /\ ret.login = "false"
           /\ Last(notified) = <<"CODE_WAIT_TIMEOUT", "ERROR">>
           /\ totpIdx = 0
           /\ probes = << >>
           /\ fills = << >>
           /\ submits = << >>

\* The TOTP flow was entered and the wait for the code timed out.
C11_Witness ==
    /\ subflows = <<"totp">>
    /\ pc = "done"
    /\ code = NoCode
    /\ Sent("CODE_WAIT_TIMEOUT", "ERROR")

\* C12 (as claimed): every fill puts the captured code into a candidate;
\* there is one fill only, it goes to the first candidate found visible,
\* the candidates before it were not visible, and no candidate after it is
\* probed.
C12_FirstVisibleFilled ==
    fills # << >> =>
        /\ code \in Codes
        /\ \A k \in 1..Len(fills) : fills[k][2] = code
        /\ Len(fills) = 1
        /\ \E j \in 1..Len(TOTP_INPUT) :
            /\ fills[1][1] = TOTP_INPUT[j]
            /\ Len(probes) = j
            /\ probes[j] = "visible"
            /\ \A m \in 1..(j - 1) : probes[m] # "visible"

C14_VisibleErrorFails ==
    (pc = "done" /\ flash # "none")
        => ret.login = (IF flash \in {"visible", "visible_text_raises"}
                        THEN "false" ELSE "true")

Count(sq, x) == Cardinality({ k \in 1..Len(sq) : sq[k] = x })

\* C15: within one call of login every phase is started at most once, so
\* credentials are filled and submitted at most once, and the
\* device-verification and two-factor sub-flows are entered at most once.
C15_NoRetry ==
    /\ \A k \in 1..Len(PhaseOrder) : Count(phases, PhaseOrder[k]) <= 1
    /\ Len(subflows) <= 1

\* Device verification used up its whole budget and failed, and login
\* returned without starting any phase again.
C15_Witness ==
    /\ pc = "done"
    /\ ret.dv = "false"
    /\ dvTicks = MaxDeviceWait
    /\ phases = SubSeq(PhaseOrder, 1, 4)

\* C30: a submit click that raised and a network-idle wait that timed out
\* do not end login: after either, login is in the phase it would be in
\* without it, and whenever login returned False after one of them, a
\* credential, device-verification or two-factor failure or a visible
\* error element is the cause.
C30_SoftFailuresNotFatal ==
    soft # {} =>
        /\ Len(phases) = 2 => pc = "settle"
        /\ (Len(phases) = 3 /\ ret.login # "raised")
               => pc \in {"device_verification", "two_factor_check", "error_check", "done"}
        /\ ret.login = "false"
               => \/ ret.dv = "false"
                  \/ ret.tfa = "false"
                  \/ flash = "visible"

\* Both soft failures happened and login returned True.
C30_Witness ==
    /\ soft = {"submit_click", "settle_timeout"}
    /\ pc = "done"
    /\ ret.login = "true"

\* C31: a page-reload failure at a device-verification poll tick is
\* swallowed: the loop goes on with the next tick, and the call returns what
\* the URLs alone decide, True once a re-check or the final check sees the
\* URL off the markers, False after all wait ticks on a marker.
C31_ReloadFailureSwallowed ==
    "reload_failed" \in soft =>
        /\ (Last(phases) = "device_verification" /\ ret.dv = "none")
               => pc = "dv_loop" /\ ret.login = "none"
        /\ ret.dv # "none" => phases = SubSeq(PhaseOrder, 1, 4) \/ Len(phases) > 4
        /\ ret.dv = "false" =>
               /\ pc = "done"
               /\ dvTicks = device_wait
               /\ OnDeviceVerification(url)
        /\ pc = "dv_settle" =>
               /\ ret.dv = "true"
               /\ ~OnDeviceVerification(url)

\* A reload failed at the first re-check, the second re-check passed.
C31_Witness ==
    /\ "reload_failed" \in soft
    /\ pc = "dv_settle"
    /\ ret.dv = "true"
    /\ dvTicks = 11
    /\ Sent("DEVICE_VERIFICATION_PASSED", "SUCCESS")

\* C37 as stated: in one call of _fill_totp_code the received code is filled
\* and submitted at most once, whatever browser errors the fill, the submit
\* click, the Enter key press or the settle wait raise.
C37_FilledAndSubmittedOnce ==
    /\ Len(fills) <= 1
    /\ Len(submits) <= 1

\* ============================================== claims on SpecCallback
\* Some positive (not negated) pattern of the list is a substring of u.
C8_PositiveHit(ps, u) ==
    \E k \in 1..Len(ps) : Head(ps[k]) # "!" /\ Contains(ps[k], u)
\* The substring of some negated pattern of the list is in u.
C7_NegatedHit(ps, u) ==
    \E k \in 1..Len(ps) : Head(ps[k]) = "!" /\ Contains(Tail(ps[k]), u)

\* C7 (as claimed): wait_callback never returns success on a URL that
\* contains the substring of a negated pattern.
C7_NegatedDisqualifies ==
    cbRet = "true" => ~C7_NegatedHit(success_patterns, Last(polled))

\* C8: wait_callback returns True at the first poll whose URL contains a
\* positive pattern, and False after timeout polls none of which saw such a
\* URL; a list of negated patterns only never gives True.
C8_FirstPositiveMatch ==
    /\ Len(polled) <= cb_timeout
    /\ \A k \in 1..Len(polled) :
          C8_PositiveHit(success_patterns, polled[k]) <=>
              (cbRet = "true" /\ k = Len(polled))
    /\ cbRet = "true" => url = Last(polled)
    /\ cbRet = "false" => Len(polled) = cb_timeout
    /\ pc = "cb_poll" => cbRet = "none" /\ Len(polled) = i
    /\ pc = "cb_done" => cbRet \in {"true", "false"}
    /\ (\A k \in 1..Len(success_patterns) : Head(success_patterns[k]) = "!")
          => cbRet # "true"

\* A list of negated patterns only timed out although a polled URL was free
\* of every negated substring.
C8_Witness ==
    /\ cbRet = "false"
    /\ cb_timeout = MaxCallbackWait
    /\ \A k \in 1..Len(success_patterns) : Head(success_patterns[k]) = "!"
    /\ \E k \in 1..Len(polled) : ~C7_NegatedHit(success_patterns, polled[k])

\* C32: at every poll at which the URL is the authorize page and no success
\* pattern matched, handle_authorization is invoked before the next poll,
\* and the wait does not end because of it: it ends only on a poll that
\* matches or when the timeout is used up.
C32_AuthorizeHandledInline ==
    /\ authCalls = Cardinality({k \in 1..Len(polled) :
                        /\ Contains(OAUTH_AUTHORIZE, polled[k])
                        /\ ~C8_PositiveHit(success_patterns, polled[k])})
    /\ pc = "cb_done" =>
          \/ cbRet = "true" /\ C8_PositiveHit(success_patterns, Last(polled))
          \/ cbRet = "false" /\ Len(polled) = cb_timeout
    /\ (pc = "cb_poll" /\ Len(polled) < cb_timeout) => cbRet = "none"

\* Two polls on the authorize page, each handled, then the callback.
C32_Witness ==
    /\ authCalls = 2
    /\ Len(polled) = 3
    /\ polled[1] = UrlAuthorize
    /\ polled[2] = UrlAuthorize
    /\ cbRet = "true"

\* C36 as stated: when wait_callback declares success on a URL, the login
\* verification (_check_already_logged_in) on the same URL and the same
\* pattern list is True as well.
C36_SuccessTestsAgree ==
    cbRet = "true" => CheckAlreadyLoggedIn(success_patterns, url)

\* C38 as stated: wait_callback returns False only if the URL matches no
\* positive success pattern at the moment it returns.
C38_NoMatchAtTimeout ==
    cbRet = "false" => ~C8_PositiveHit(success_patterns, url)

\* ================================================= claims on SpecOAuth
\* The selectors of the click attempts of sequence cl, in order.
ClickedSelectors(cl) == [k \in 1..Len(cl) |-> cl[k][1]]
RECURSIVE VisibleSelectors(_)
\* The selectors that sequence pr found visible, in order.
VisibleSelectors(pr) ==
    IF pr = << >> THEN << >>
    ELSE LET rest == VisibleSelectors(SubSeq(pr, 1, Len(pr) - 1))
         IN  IF Last(pr)[2] = "visible" THEN Append(rest, Last(pr)[1]) ELSE rest

\* C18: handle_authorization never returns False; once it has returned it
\* returned True, and when the URL it read on entry was not an authorize
\* page it probed and clicked nothing.
C18_AlwaysTrue ==
    pc \in {"authorize", "auth_probe", "auth_done"} =>
        /\ opRet # "false"
        /\ pc = "auth_done" =>
            /\ opRet = "true"
            /\ ~Contains(OAUTH_AUTHORIZE, opUrl) => (probed = << >> /\ clicked = << >>)

\* The authorize page was shown, all three selectors were probed, none was
\* visible, and the call returned True.
C18_Witness ==
    /\ pc = "auth_done"
    /\ Contains(OAUTH_AUTHORIZE, opUrl)
    /\ Len(probed) = Len(AUTHORIZE_SELECTORS)
    /\ \A k \in 1..Len(probed) : probed[k][2] = "hidden"
    /\ opRet = "true"

\* C19: click_oauth_button probes the selectors in list order and tries to
\* click exactly those it found visible; at most one click succeeds, it is
\* the last thing the call does, and the call returns True exactly when a
\* click succeeded; it returns False only after probing the whole list.
C19_ClickFirstVisible ==
    pc \in {"click_oauth", "click_done"} =>
        /\ Len(probed) <= Len(selectors)
        /\ \A k \in 1..Len(probed) : probed[k][1] = selectors[k]
        /\ ClickedSelectors(clicked) = VisibleSelectors(probed)
        /\ \A k \in 1..Len(clicked) : clicked[k][2] = "ok" =>
            /\ k = Len(clicked)
            /\ Last(probed) = <<clicked[k][1], "visible">>
            /\ pc = "click_done"
        /\ pc = "click_done" =>
            /\ opRet \in {"true", "false"}
            /\ opRet = "true" <=> (clicked # << >> /\ Last(clicked)[2] = "ok")
            /\ opRet = "false" => Len(probed) = Len(selectors)

\* The first selector was not visible, the second was and its click went
\* through.
C19_Witness ==
    /\ pc = "click_done"
    /\ Len(selectors) = 2
    /\ probed = << <<selectors[1], "hidden">>, <<selectors[2], "visible">> >>
    /\ clicked = << <<selectors[2], "ok">> >>
    /\ opRet = "true"

\* =============================================== claims on SpecCookies
\* C6 (as claimed): a cookie-target write that fails does not abort the
\* run: when run has returned, it returned True and every cookie name was
\* handled.
C6_TargetFailureTolerated ==
    (pc = "run_done" /\ \E k \in 1..Len(writes) : writes[k][3] = "failed")
        => (runRet = "true" /\ nameIdx > Len(cookie_names))

\* C16 (as claimed): no log line and no Notifier message of the
\* cookie-saving path holds the whole text of a cookie value.
C16_NoUnmaskedValue ==
    \A k \in 1..Len(shown) : \A c \in CookieAlphabet :
        Len(CookieText(c.value)) > 0 => ~Contains(CookieText(c.value), shown[k].text)

NoteCount(msg, level) == Count(notified, <<msg, level>>)
WriteCount(type, outcome) ==
    Cardinality({ k \in 1..Len(writes) : writes[k][2] = type /\ writes[k][3] = outcome })

C20_LastName == IF pc = "save" \/ runRet = "false" THEN nameIdx ELSE nameIdx - 1

\* The value of the first jar entry with that name whose domain contains
\* dom; None without such an entry.
C20_FirstMatch(name, dom) ==
    LET hits == { k \in 1..Len(jar) : jar[k].name = name /\ Contains(dom, jar[k].domain) }
    IN  IF hits = {} THEN "None"
        ELSE jar[CHOOSE k \in hits : \A m \in hits : k <= m].value

\* d without its leading dots.
C20_WithoutLeadingDots(d) ==
    LET n == CHOOSE k \in 0..Len(d) :
                 /\ \A j \in 1..k : d[j] = "."
                 /\ k = Len(d) \/ d[k + 1] # "."
    IN  SubSeq(d, n + 1, Len(d))

\* C20 (as claimed): extract_session returns the value of the first jar
\* entry with the target name whose domain contains the target domain, and
\* None when there is none.
C20_FirstMatchOnDomain ==
    (C20_LastName >= 1 /\ jarRead)
        => value = C20_FirstMatch(cookie_names[C20_LastName], cookie_domain)

\* C20 (amended): extract_session returns the value of the first jar entry
\* with the target name whose domain contains the target domain without its
\* leading dots, and None when there is none.
C20_FirstMatchOnStrippedDomain ==
    (C20_LastName >= 1 /\ jarRead)
        => value = C20_FirstMatch(cookie_names[C20_LastName],
                                  C20_WithoutLeadingDots(cookie_domain))

\* The target domain has a leading dot, the first jar entry is on another
\* site, and the second entry, on the bare domain, gave the value.
C20_Witness ==
    /\ pc = "save"
    /\ jarRead
    /\ cookie_domain = <<".", "github.com">>
    /\ Len(jar) = 2
    /\ jar[1].domain = <<"example.com">>
    /\ jar[2].domain = <<"github.com">>
    /\ value = jar[2].value

\* ================================================= claims on SpecState
MaxThreshold == 4

\* The record_login_attempt calls instance n made for a site, as the
\* sequence of their success flags.
RECURSIVE FlagsFrom(_, _, _)
FlagsFrom(k, n, site) ==
    IF k > Len(calls) THEN << >>
    ELSE IF calls[k][1] = n /\ calls[k][2] = site
         THEN << calls[k][3] >> \o FlagsFrom(k + 1, n, site)
         ELSE FlagsFrom(k + 1, n, site)
Flags(n, site) == FlagsFrom(1, n, site)

Successes(fl) == Cardinality({k \in 1..Len(fl) : fl[k]})
Failures(fl) == Cardinality({k \in 1..Len(fl) : ~fl[k]})
LastSuccess(fl) ==
    IF \E k \in 1..Len(fl) : fl[k]
    THEN CHOOSE k \in 1..Len(fl) : fl[k] /\ \A j \in (k + 1)..Len(fl) : ~fl[j]
    ELSE 0

\* The counters instance n started from for a site.
Base(n, site) ==
    IF site \in DOMAIN loaded[n].sites THEN loaded[n].sites[site] ELSE NewRecord

\* The failures recorded since the last success, counting the streak the
\* instance loaded when it has recorded no success itself.
Streak(n, site) ==
    LET fl == Flags(n, site) IN
    IF LastSuccess(fl) = 0
    THEN Base(n, site).consecutive_failures + Len(fl)
    ELSE Len(fl) - LastSuccess(fl)

\* C21: after any sequence of record_login_attempt calls on a site,
\* consecutive_failures is the number of failures recorded since the last
\* success, total_failures and total_successes count the failures and the
\* successes, total_attempts counts the calls (each on top of what the
\* instance loaded); three failures then one success on a site with no
\* history give 0, 3, 1 and 4.
C21_CountersCountCalls ==
    \A n \in Instances, site \in Sites :
        LET fl == Flags(n, site) IN
        (status[n] = "ready" /\ Len(fl) > 0) =>
            /\ site \in DOMAIN mem[n].sites
            /\ mem[n].sites[site].total_attempts = Base(n, site).total_attempts + Len(fl)
            /\ mem[n].sites[site].total_successes = Base(n, site).total_successes + Successes(fl)
            /\ mem[n].sites[site].total_failures = Base(n, site).total_failures + Failures(fl)
            /\ mem[n].sites[site].consecutive_failures = Streak(n, site)
            /\ Last(fl) => mem[n].sites[site].consecutive_failures = 0
            /\ (fl = << FALSE, FALSE, FALSE, TRUE >> /\ site \notin DOMAIN loaded[n].sites)
                   => mem[n].sites[site] =
                          [total_attempts |-> 4, total_successes |-> 1,
                           total_failures |-> 3, consecutive_failures |-> 0]

\* Three failures, then a success, on a site without history.
C21_Witness ==
    /\ status[1] = "ready"
    /\ loaded[1] = EmptyState
    /\ calls = << <<1, "s1", FALSE>>, <<1, "s1", FALSE>>, <<1, "s1", FALSE>>, <<1, "s1", TRUE>> >>
    /\ mem[1].sites["s1"].total_failures = 3

\* Whether instance n has a record for the site.
HasRecord(n, site) == site \in DOMAIN loaded[n].sites \/ Len(Flags(n, site)) > 0

\* C22: is_healthy(site, m) is True for a site with no record, and otherwise
\* True exactly when the site's consecutive failures are fewer than m; with
\* m = 3 it is True after exactly 2 consecutive failures, False after exactly
\* 3, and True again after the next success.
C22_HealthyBelowThreshold ==
    \A n \in Instances, site \in Sites :
        status[n] = "ready" =>
            /\ \A m \in 0..MaxThreshold :
                IsHealthy(mem[n].sites, site, m)
                    <=> (~HasRecord(n, site) \/ Streak(n, site) < m)
            /\ site \notin DOMAIN loaded[n].sites =>
                /\ Flags(n, site) = << FALSE, FALSE >>
                       => IsHealthy(mem[n].sites, site, DEFAULT_MAX_CONSECUTIVE_FAILURES)
                /\ Flags(n, site) = << FALSE, FALSE, FALSE >>
                       => ~IsHealthy(mem[n].sites, site, DEFAULT_MAX_CONSECUTIVE_FAILURES)
                /\ Flags(n, site) = << FALSE, FALSE, FALSE, TRUE >>
                       => IsHealthy(mem[n].sites, site, DEFAULT_MAX_CONSECUTIVE_FAILURES)

\* Exactly three failures in a row: the site is unhealthy at the default
\* threshold and healthy at the next one.
C22_Witness ==
    /\ status[1] = "ready"
    /\ loaded[1] = EmptyState
    /\ Flags(1, "s2") = << FALSE, FALSE, FALSE >>
    /\ ~IsHealthy(mem[1].sites, "s2", DEFAULT_MAX_CONSECUTIVE_FAILURES)
    /\ IsHealthy(mem[1].sites, "s2", DEFAULT_MAX_CONSECUTIVE_FAILURES + 1)

\* Instance r made every call so far and instance f was constructed after
\* the last of them.
FreshAfter(r, f) ==
    /\ r # f
    /\ status[r] = "ready"
    /\ status[f] = "ready"
    /\ Len(calls) > 0
    /\ \A k \in 1..Len(calls) : calls[k][1] = r
    /\ loadedAt[f] = Len(calls)

BothLoadedThenRecorded(site) ==
    /\ \A n \in Instances : status[n] = "ready" /\ loadedAt[n] = 0
    /\ diskOk
    /\ Len(calls) = 2
    /\ calls[1][1] # calls[2][1]
    /\ calls[1][2] = site
    /\ calls[2][2] = site

\* C24: runs on the same state file are not coordinated: when two instances
\* both load the file before either flushes and each records one attempt for
\* the same site, the later flush overwrites the earlier one, and the
\* persisted total_attempts is one more than what was loaded, not two.
C24_LaterFlushOverwrites ==
    \A site \in Sites :
        BothLoadedThenRecorded(site) =>
            /\ file.kind = "json"
            /\ file.entries = Dumps(mem[calls[2][1]])
            /\ Loads(file.entries)[site].total_attempts = Base(1, site).total_attempts + 1
            /\ Base(1, site) = Base(2, site)

\* Two attempts recorded on top of three, four persisted.
C24_Witness ==
    /\ BothLoadedThenRecorded("s1")
    /\ Base(1, "s1").total_attempts = 3
    /\ Loads(file.entries)["s1"].total_attempts = 4

\* C25 as stated: constructing a StateManager on a state file that is corrupt
\* or unreadable never raises, the instance starts with an empty state, and
\* later record_login_attempt calls on it succeed.
C25_CorruptFileTolerated ==
    \A n \in Instances :
        /\ status[n] # "init_raised"
        /\ status[n] # "record_raised"
        /\ (file.kind \in {"unreadable", "bad_json", "bad_utf8"} /\ status[n] = "ready")
               => mem[n] = EmptyState

\* C40: in every state reached by record_login_attempt calls, each site's
\* record has total_attempts = total_successes + total_failures and
\* 0 <= consecutive_failures <= total_failures, and a call for one site
\* leaves every other site's record, and the other instance, unchanged.
C40_RecordsConsistent ==
    /\ [](\A n \in Instances : \A site \in DOMAIN mem[n].sites :
            LET rec == mem[n].sites[site] IN
            /\ rec.total_attempts = rec.total_successes + rec.total_failures
            /\ 0 <= rec.consecutive_failures
            /\ rec.consecutive_failures <= rec.total_failures)
    /\ [][Len(calls') = Len(calls) + 1 =>
            LET made == calls'[Len(calls')] IN
            /\ \A n \in Instances \ {made[1]} : mem'[n] = mem[n]
            /\ \A site \in Sites \ {made[2]} :
                /\ site \in DOMAIN mem'[made[1]].sites <=> site \in DOMAIN mem[made[1]].sites
                /\ site \in DOMAIN mem[made[1]].sites
                       => mem'[made[1]].sites[site] = mem[made[1]].sites[site]]_vars

\* From an empty store: a failure on one site, a success on the other, then
\* a second failure on the first.
C40_Witness ==
    /\ loaded[1] = EmptyState
    /\ calls = << <<1, "s1", FALSE>>, <<1, "s2", TRUE>>, <<1, "s1", FALSE>> >>
    /\ mem[1].sites["s1"].consecutive_failures = 2
    /\ mem[1].sites["s2"].total_successes = 1

\* ================================================== claims on SpecMask
\* C26 as stated: for every value and every n >= 0, mask_sensitive(value, n)
\* is '*' repeated len(value) times when len(value) <= 2n; otherwise it has
\* the length of value, keeps the first n and the last n characters, and has
\* '*' everywhere between them.
C26_MaskShape ==
    maskOut.returned =>
        LET len == Len(maskValue) IN
        /\ len <= 2 * maskShow => maskOut.text = [k \in 1..len |-> "*"]
        /\ len > 2 * maskShow =>
            /\ Len(maskOut.text) = len
            /\ \A k \in 1..len :
                maskOut.text[k] = IF k <= maskShow \/ k > len - maskShow
                             THEN maskValue[k]
                             ELSE "*"

\* ================================================= claims on SpecRetry
RECURSIVE Pow(_, _)
Pow(b, e) == IF e = 0 THEN 1 ELSE b * Pow(b, e - 1)

\* C27: a function wrapped by retry(max_attempts=N, delay=d, backoff=b) is
\* invoked at most N times; after its k-th failure with a listed exception
\* (k < N) the wrapper sleeps d*b^(k-1) before the next attempt; after the
\* N-th failure the exception is re-raised with no further sleep; a success
\* at any attempt returns that value with no further invocation.
C27_RetrySchedule ==
    LET n == Len(invoked)
        failedBefore == Cardinality({k \in 1..n : invoked[k] = "listed" /\ k < max_attempts})
    IN  /\ n <= max_attempts
        /\ \A k \in 1..(n - 1) : invoked[k] = "listed"
        /\ Len(naps) = failedBefore
        /\ \A k \in 1..Len(naps) : naps[k] = delay * Pow(backoff, k - 1)
        /\ (n >= 1 /\ n = max_attempts /\ invoked[n] = "listed")
               => retryOut = "raised_listed" /\ Len(naps) = max_attempts - 1
        /\ (n >= 1 /\ invoked[n] \in ReturnValues) => retryOut = invoked[n]
        /\ retryOut \in ReturnValues => (n >= 1 /\ invoked[n] = retryOut)
        /\ (n >= 1 /\ n < max_attempts /\ invoked[n] = "listed") => retryOut = "running"

\* Three listed failures out of three attempts: two sleeps, the second
\* three times the first, then the exception.
C27_Witness ==
    /\ max_attempts = 3
    /\ delay = 2
    /\ backoff = 3
    /\ invoked = << "listed", "listed", "listed" >>
    /\ naps = << 2, 6 >>
    /\ retryOut = "raised_listed"

\* ================================================== claims on SpecMain
\* C29 as stated: main exits with code 0 exactly when SiteAdapter.run
\* returned True, and with code 1 on every other path (missing site
\* argument, unknown or disabled site, missing credentials, run returning
\* False, any exception).
C29_ExitCodeFollowsRun ==
    mainPc = "exited" =>
        /\ runResult = "true" => exitCode = "0"
        /\ runResult # "true" => exitCode = "1"

\* ================================================== claims on SpecSave
\* C28: save_cookies with an empty value is a no-op for every list of
\* targets: no file is written, no remote API is called, no Notifier
\* message is sent (and nothing is slept on or shown).
C28_EmptyValueNoOp ==
    (nameIdx = 0 /\ value = "" /\ pc # "save_cookies") =>
        /\ pc = "save_returned"
        /\ writes = << >>
        /\ notified = << >>
        /\ shown = << >>
        /\ sleeps = << >>
        /\ attempt = 0
        /\ targetIdx = 0

\* An empty value with a secret target and a file target: returned at once.
C28_Witness ==
    /\ nameIdx = 0
    /\ value = ""
    /\ cookie_targets = << "github_secret", "file" >>
    /\ envReady
    /\ pc = "save_returned"
    /\ writes = << >>

\* ============================================== claims on SpecTelegram
\* What a matching message text gives: the digits for the pattern with a
\* group, the text without the surrounding whitespace for the one without.
C33_Expected(p, t) ==
    CASE t = <<"/code", " ", "123456">> ->
            IF p = "code_group" THEN <<"123456">> ELSE <<"/code", " ", "123456">>
      [] t = <<" ", "/code", " ", "654321", " ">> ->
            IF p = "code_group" THEN <<"654321">> ELSE <<"/code", " ", "654321">>
      [] OTHER -> <<"no match">>

\* C33: wait_user_input returns only text from a message of the configured
\* chat that matches the pattern, the first captured group or, without a
\* group, the full text; messages of other chats and non-matching messages
\* are never returned; a disabled notifier returns None without any network
\* call.
C33_OnlyMatchingReplies ==
    /\ tgRet.kind = "text" =>
          \E k \in 1..Len(inbox) :
              /\ inbox[k].chat = 42
              /\ tgRet.text = C33_Expected(tgPattern, inbox[k].text)
              /\ tgOffset = k + 1
    /\ ~tgEnabled =>
          /\ netCalls = 0
          /\ tgPc = "returned" => tgRet.kind = "None"
          /\ tgPc # "raised"

\* A message of another chat and a non-matching one were skipped, then the
\* padded reply gave its digits.
C33_Witness ==
    /\ tgPattern = "code_group"
    /\ Len(inbox) = 2
    /\ inbox[1].chat = 7
    /\ inbox[1].text = <<"/code", " ", "123456">>
    /\ inbox[1].sent = "while_waiting"
    /\ inbox[2].chat = 42
    /\ inbox[2].text = <<" ", "/code", " ", "654321", " ">>
    /\ tgRet = [kind |-> "text", text |-> <<"654321">>]

\* The valid replies of the configured chat sent after the TOTP-needed
\* notification.
C34_ValidAfterNotice ==
    {k \in 1..Len(inbox) :
        /\ inbox[k].sent # "before_notice"
        /\ inbox[k].chat = 42
        /\ C33_Expected("code_group", inbox[k].text) # <<"no match">>}

\* C34 as stated: a valid reply the human sends after the TOTP-needed
\* notification is delivered, never discarded by the flush: the offset
\* passes over such a reply only when wait_user_input returns it.
C34_ReplyAfterNoticeDelivered ==
    \A k \in C34_ValidAfterNotice :
        tgOffset > k =>
            \/ /\ tgRet.kind = "text"
               /\ tgRet.text = C33_Expected(tgPattern, inbox[k].text)
            \/ \E j \in C34_ValidAfterNotice : j < k /\ tgRet.kind = "text"

\* ================================================ claims on SpecExport
\* C39 as stated: a run of the login-only entry point exports exactly one
\* session/status pair, and the status is "success" exactly when the exit
\* code is 0, also when the final message or the secret update fails.
C39_ExportedOnce ==
    loPc = "exited" =>
        /\ Len(exported) = 1
        /\ (exported[1].status = "success") <=> (loExit = "0")

\* =================================================== claims on SpecRun
\* C35 as stated: when the browser is on the GitHub authorize page after the
\* OAuth button was clicked, run goes to handle_authorization and the
\* credential login is not invoked.
C35_AuthorizePageSkipsLogin ==
    (Contains(OAUTH_AUTHORIZE, url) /\ pc # "run_route") =>
        /\ pc = "authorize"
        /\ phases = << >>

====
